---- MODULE Spec2Model ----
(***************************************************************************)
(* Model of the referee arbitrage bot: the arbitrage engine in its two     *)
(* variants (event-driven, internal/arbitrage/engine.go, and polling, the  *)
(* second half of internal/arbitrage/engine_test.go), the cost             *)
(* computation, and the fan-in pipeline of cmd/referee/main.go.            *)
(*                                                                         *)
(* float64 values are modelled as exact rationals with the IEEE special    *)
(* values +Inf, -Inf and NaN (a division by zero yields them); rounding    *)
(* of the mantissa is not modelled.                                        *)
(***************************************************************************)
EXTENDS Integers, Sequences, FiniteSets, Bags, TLC

\* ------------------------------------------------------------------------
\* float64 arithmetic
\* ------------------------------------------------------------------------

Abs(x) == IF x < 0 THEN -x ELSE x

RECURSIVE GCD(_, _)
GCD(a, b) == IF b = 0 THEN a ELSE GCD(b, a % b)

\* A finite value n/d in lowest terms, d > 0.
Fin(n, d) ==
    LET g == GCD(Abs(n), Abs(d))
        s == IF d < 0 THEN -1 ELSE 1
    IN  [k |-> "fin", n |-> s * (n \div g), d |-> s * (d \div g)]

Inf(sign) == [k |-> "inf", n |-> sign, d |-> 1]
NaN == [k |-> "nan", n |-> 0, d |-> 1]
F(i) == Fin(i, 1)

Sign(x) == IF x.n > 0 THEN 1 ELSE IF x.n < 0 THEN -1 ELSE 0

\* x * y
FMul(x, y) ==
    IF x.k = "nan" \/ y.k = "nan" THEN NaN
    ELSE IF x.k = "inf" \/ y.k = "inf"
         THEN IF Sign(x) = 0 \/ Sign(y) = 0 THEN NaN ELSE Inf(Sign(x) * Sign(y))
    ELSE LET g1 == GCD(Abs(x.n), y.d)
             g2 == GCD(Abs(y.n), x.d)
         IN  Fin((x.n \div g1) * (y.n \div g2), (x.d \div g2) * (y.d \div g1))

\* x / y
FDiv(x, y) ==
    IF x.k = "nan" \/ y.k = "nan" THEN NaN
    ELSE IF x.k = "inf" /\ y.k = "inf" THEN NaN
    ELSE IF x.k = "inf" THEN Inf(IF Sign(y) < 0 THEN -Sign(x) ELSE Sign(x))
    ELSE IF y.k = "inf" THEN F(0)
    ELSE IF y.n = 0 THEN (IF x.n = 0 THEN NaN ELSE Inf(Sign(x)))
    ELSE FMul(x, Fin(y.d, y.n))

\* x + y
FAdd(x, y) ==
    IF x.k = "nan" \/ y.k = "nan" THEN NaN
    ELSE IF x.k = "inf" /\ y.k = "inf"
         THEN IF Sign(x) = Sign(y) THEN x ELSE NaN
    ELSE IF x.k = "inf" THEN x
    ELSE IF y.k = "inf" THEN y
    ELSE LET g == GCD(x.d, y.d)
         IN  Fin(x.n * (y.d \div g) + y.n * (x.d \div g), (x.d \div g) * y.d)

FNeg(x) == IF x.k = "nan" THEN NaN ELSE [x EXCEPT !.n = -x.n]

\* x - y
FSub(x, y) == FAdd(x, FNeg(y))

\* x < y (false when either is NaN)
FLess(x, y) ==
    /\ x.k # "nan"
    /\ y.k # "nan"
    /\ Sign(FSub(y, x)) > 0
    /\ FSub(y, x).k # "nan"

\* x > y
FGreater(x, y) == FLess(y, x)

\* ------------------------------------------------------------------------
\* Configuration and inputs
\* ------------------------------------------------------------------------

\* The absent value of a string-valued variable and of a record-valued one.
None == "none"
Nil == [nil |-> TRUE]
\* The net profit of a candidate whose cost computation has not run yet.
NotComputed == [k |-> "none", n |-> 0, d |-> 1]

\* The sources that send ticks. kraken and binance are the configured
\* exchanges; coinbase is a source without an entry in cfg.Exchanges.
Exchanges == {"kraken", "binance", "coinbase"}

\* cfg.Arbitrage.SimulatedTradeVolumeEUR
SimulatedTradeVolumeEUR == 1000
\* cfg.Arbitrage.NetworkWithdrawalFeeEUR
NetworkWithdrawalFeeEUR == 5

\* A configuration lookup that falls back to the highest configured fee for
\* a source without an entry.
TakerFeePercentWithDefault(ex) ==
    IF ex = "binance" THEN Fin(10, 100) ELSE Fin(26, 100)

\* cfg.Exchanges[ex].TakerFeePercent; a missing key reads as the zero value.
TakerFeePercent(ex) ==
    IF ex = "kraken" THEN Fin(26, 100)
    ELSE IF ex = "binance" THEN Fin(10, 100)
    ELSE F(0)

\* Capacity of the fan-in channel.
PriceChanCap == 100

\* The model lets the clients run at most this many ticks ahead of the engine.
MaxInFlight == 2

\* The (bid, ask) pairs each source quotes. With the fees above, buying on
\* kraken at 4995 and selling on binance at 5038 has a net profit of exactly
\* zero; selling at 5000 runs at a loss, selling at 6000 at a profit.
QuotesOf(ex) ==
    IF ex = "kraken"
    THEN { [bid |-> 4995, ask |-> 4995], [bid |-> 6000, ask |-> 4995] }
    ELSE IF ex = "binance"
    THEN { [bid |-> 5038, ask |-> 5038], [bid |-> 6000, ask |-> 4995] }
    ELSE { [bid |-> 5000, ask |-> 4995], [bid |-> 4995, ask |-> 0] }

\* The quotes of the engine's tests, and one with an ask of exactly 60000.
ExampleQuotesOf(ex) ==
    IF ex = "kraken"
    THEN { [bid |-> 60000, ask |-> 60050], [bid |-> 60000, ask |-> 60001],
           [bid |-> 59950, ask |-> 60000] }
    ELSE { [bid |-> 60000, ask |-> 60050], [bid |-> 61000, ask |-> 61050],
           [bid |-> 60002, ask |-> 60003] }

\* model.PriceTick (Pair is always "BTC/EUR")
PriceTick(ex, q) == [Exchange |-> ex, Bid |-> q.bid, Ask |-> q.ask]

\* ------------------------------------------------------------------------
\* Cost computation
\* ------------------------------------------------------------------------

\* Evaluate with each leg charged the fee of the other leg's exchange.
EvaluateSwappedFees(buyExchange, sellExchange, buyPrice, sellPrice) ==
    LET volumeInCrypto == FDiv(F(SimulatedTradeVolumeEUR), F(buyPrice))
        grossProfitEUR == FMul(FSub(F(sellPrice), F(buyPrice)), volumeInCrypto)
        buyLegFee      == FMul(FMul(F(buyPrice), volumeInCrypto),
                               FDiv(TakerFeePercent(sellExchange), F(100)))
        sellLegFee     == FMul(FMul(F(sellPrice), volumeInCrypto),
                               FDiv(TakerFeePercent(buyExchange), F(100)))
        totalFeesEUR   == FAdd(FAdd(buyLegFee, sellLegFee), F(NetworkWithdrawalFeeEUR))
        netProfitEUR   == FSub(grossProfitEUR, totalFeesEUR)
    IN  [volumeInCrypto |-> volumeInCrypto,
         grossProfitEUR |-> grossProfitEUR,
         buyLegFee      |-> buyLegFee,
         sellLegFee     |-> sellLegFee,
         totalFeesEUR   |-> totalFeesEUR,
         netProfitEUR   |-> netProfitEUR]

\* Evaluate with the network withdrawal fee left out of the total fees.
EvaluateNoNetworkFee(buyExchange, sellExchange, buyPrice, sellPrice) ==
    LET volumeInCrypto == FDiv(F(SimulatedTradeVolumeEUR), F(buyPrice))
        grossProfitEUR == FMul(FSub(F(sellPrice), F(buyPrice)), volumeInCrypto)
        buyLegFee      == FMul(FMul(F(buyPrice), volumeInCrypto),
                               FDiv(TakerFeePercent(buyExchange), F(100)))
        sellLegFee     == FMul(FMul(F(sellPrice), volumeInCrypto),
                               FDiv(TakerFeePercent(sellExchange), F(100)))
        totalFeesEUR   == FAdd(buyLegFee, sellLegFee)
        netProfitEUR   == FSub(grossProfitEUR, totalFeesEUR)
    IN  [volumeInCrypto |-> volumeInCrypto,
         grossProfitEUR |-> grossProfitEUR,
         buyLegFee      |-> buyLegFee,
         sellLegFee     |-> sellLegFee,
         totalFeesEUR   |-> totalFeesEUR,
         netProfitEUR   |-> netProfitEUR]

\* Evaluate with the raw spread taken as the net profit: no cost deducted.
EvaluateGrossOnly(buyExchange, sellExchange, buyPrice, sellPrice) ==
    LET volumeInCrypto == FDiv(F(SimulatedTradeVolumeEUR), F(buyPrice))
        grossProfitEUR == FMul(FSub(F(sellPrice), F(buyPrice)), volumeInCrypto)
        buyLegFee      == FMul(FMul(F(buyPrice), volumeInCrypto),
                               FDiv(TakerFeePercent(buyExchange), F(100)))
        sellLegFee     == FMul(FMul(F(sellPrice), volumeInCrypto),
                               FDiv(TakerFeePercent(sellExchange), F(100)))
        totalFeesEUR   == FAdd(FAdd(buyLegFee, sellLegFee), F(NetworkWithdrawalFeeEUR))
        netProfitEUR   == grossProfitEUR
    IN  [volumeInCrypto |-> volumeInCrypto,
         grossProfitEUR |-> grossProfitEUR,
         buyLegFee      |-> buyLegFee,
         sellLegFee     |-> sellLegFee,
         totalFeesEUR   |-> totalFeesEUR,
         netProfitEUR   |-> netProfitEUR]

\* Evaluate with a result that depends on the name of the buy source beyond
\* its fee: the network fee is charged twice when buying on "bitstamp".
EvaluateSourceSurcharge(buyExchange, sellExchange, buyPrice, sellPrice) ==
    LET volumeInCrypto == FDiv(F(SimulatedTradeVolumeEUR), F(buyPrice))
        grossProfitEUR == FMul(FSub(F(sellPrice), F(buyPrice)), volumeInCrypto)
        buyLegFee      == FMul(FMul(F(buyPrice), volumeInCrypto),
                               FDiv(TakerFeePercent(buyExchange), F(100)))
        sellLegFee     == FMul(FMul(F(sellPrice), volumeInCrypto),
                               FDiv(TakerFeePercent(sellExchange), F(100)))
        totalFeesEUR   == FAdd(FAdd(buyLegFee, sellLegFee),
                               F(IF buyExchange = "bitstamp"
                                 THEN 2 * NetworkWithdrawalFeeEUR
                                 ELSE NetworkWithdrawalFeeEUR))
        netProfitEUR   == FSub(grossProfitEUR, totalFeesEUR)
    IN  [volumeInCrypto |-> volumeInCrypto,
         grossProfitEUR |-> grossProfitEUR,
         buyLegFee      |-> buyLegFee,
         sellLegFee     |-> sellLegFee,
         totalFeesEUR   |-> totalFeesEUR,
         netProfitEUR   |-> netProfitEUR]

\* The locals of checkAndExecuteArbitrage / evaluateAndExecute.
Evaluate(buyExchange, sellExchange, buyPrice, sellPrice) ==
    LET volumeInCrypto == FDiv(F(SimulatedTradeVolumeEUR), F(buyPrice))
        grossProfitEUR == FMul(FSub(F(sellPrice), F(buyPrice)), volumeInCrypto)
        buyLegFee      == FMul(FMul(F(buyPrice), volumeInCrypto),
                               FDiv(TakerFeePercent(buyExchange), F(100)))
        sellLegFee     == FMul(FMul(F(sellPrice), volumeInCrypto),
                               FDiv(TakerFeePercent(sellExchange), F(100)))
        totalFeesEUR   == FAdd(FAdd(buyLegFee, sellLegFee), F(NetworkWithdrawalFeeEUR))
        netProfitEUR   == FSub(grossProfitEUR, totalFeesEUR)
    IN  [volumeInCrypto |-> volumeInCrypto,
         grossProfitEUR |-> grossProfitEUR,
         buyLegFee      |-> buyLegFee,
         sellLegFee     |-> sellLegFee,
         totalFeesEUR   |-> totalFeesEUR,
         netProfitEUR   |-> netProfitEUR]

\* The test written netProfitEUR >= 0.
IsProfitableOrZero(netProfitEUR) ==
    FGreater(netProfitEUR, F(0)) \/ netProfitEUR = F(0)

\* if netProfitEUR > 0
IsProfitable(netProfitEUR) == FGreater(netProfitEUR, F(0))

Candidate(buyExchange, sellExchange, buyPrice, sellPrice) ==
    [buyExchange |-> buyExchange, sellExchange |-> sellExchange,
     buyPrice |-> buyPrice, sellPrice |-> sellPrice]

\* ------------------------------------------------------------------------
\* State
\* ------------------------------------------------------------------------

VARIABLES
    mode,         \* which engine variant runs: "event" or "poll"
    latestPrices, \* e.latestPrices: exchange -> PriceTick (Nil: no entry)
    priceChan,    \* the fan-in channel of main (event-driven pipeline)
    ctxDone,      \* the context has been cancelled
    pc,           \* position of the engine goroutine
    tick,         \* ProcessTick's argument (event-driven engine)
    toVisit,      \* keys the range loop of ProcessTick has still to visit
    exchanges,    \* checkArbitrage's slice of keys
    i, j,         \* checkArbitrage's loop indices (1-based)
    ret,          \* where the cost computation returns to
    cand,         \* arguments of the running cost computation
    trade,        \* the SimulatedTrade being logged
    priceMutex,   \* e.priceMutex: [writer, readers]
    wpc,          \* position of each source's ProcessTick call (polling engine)
    wtick,        \* argument of each source's ProcessTick call (polling engine)
    lastSent,     \* last tick each source submitted
    lastProc,     \* argument of the latest ProcessTick call per source
    passEvals,    \* cost computations invoked in the current detection pass,
                  \* each with the net profit it computed
    passLogged,   \* bag of the trades handed to LogTrade in the current pass
    passErrs,     \* a LogTrade call of the current pass has returned an error
    client,       \* which StartStream is followed step by step (None: no one's)
    cpc,          \* position of that StartStream call
    backoff,      \* its local backoff, in seconds
    conn,         \* its WebSocket connection c: "none", "open" or "closed"
    ctick,        \* the tick it has parsed and is sending
    cmsg,         \* the message it has read and is handling (Nil: none)
    cret,         \* what it has returned (None: it has not returned)
    elapsed,      \* seconds the running persistence call has lasted so far
    simulatedTrades, \* rows of table simulated_trades, in insertion order
    priceTicks,   \* rows of table price_ticks, in insertion order
    repoCall,     \* the latest direct call of a PostgresRepository method
    repoCalls,    \* number of such calls made so far
    tickerC,      \* ticker.C of Start: the number of firings buffered (0 or 1)
    prevPass,     \* what the previous detection pass read and logged (kept
                  \* only by the specification that follows consecutive passes)
    mainpc,       \* position of main: "serving" (at <-sigChan), "signalled",
                  \* "cancelled" or "exited"
    shutdownLog,  \* the message main's final select has logged (None: none)
    slept,        \* milliseconds the running time.Sleep has lasted so far
    stamp,        \* Timestamp of the latest trade record built, in
                  \* milliseconds after its opportunity was detected (-1:
                  \* no record yet); both kept only by the specification
                  \* that follows the delay
    tickLog       \* the LogPriceTick calls that have returned in the running
                  \* ProcessTick, each with its tick and whether it returned
                  \* an error (kept only by the specification that follows
                  \* the calls)

engineVars == <<pc, tick, toVisit, exchanges, i, j, ret, cand, trade>>
histVars   == <<passEvals, passLogged, passErrs>>
writerVars == <<wpc, wtick>>
mainVars   == <<mainpc, shutdownLog>>
clientVars == <<client, cpc, backoff, conn, ctick, cmsg, cret>>
repoVars   == <<simulatedTrades, priceTicks, repoCall, repoCalls>>
vars == <<mode, latestPrices, priceChan, ctxDone, pc, tick, toVisit, exchanges,
          i, j, ret, cand, trade, priceMutex, wpc, wtick, lastSent, lastProc,
          passEvals, passLogged, passErrs, client, cpc, backoff, conn, ctick,
          cmsg, cret, elapsed, simulatedTrades, priceTicks, repoCall, repoCalls, tickerC,
          prevPass, tickLog,
          mainpc, shutdownLog, slept, stamp>>

\* NewArbitrageEngine, and main up to the start of the goroutines.
Init ==
    /\ mode \in {"event", "poll"}
    /\ latestPrices = [ex \in Exchanges |-> Nil]
    /\ priceChan = <<>>
    /\ ctxDone = FALSE
    /\ pc = "select"
    /\ tick = Nil
    /\ toVisit = {}
    /\ exchanges = <<>>
    /\ i = 0
    /\ j = 0
    /\ ret = None
    /\ cand = Nil
    /\ trade = Nil
    /\ priceMutex = [writer |-> None, readers |-> 0]
    /\ wpc = [ex \in Exchanges |-> "idle"]
    /\ wtick = [ex \in Exchanges |-> Nil]
    /\ lastSent = [ex \in Exchanges |-> Nil]
    /\ lastProc = [ex \in Exchanges |-> Nil]
    /\ passEvals = {}
    /\ passLogged = EmptyBag
    /\ passErrs = FALSE
    /\ client = None
    /\ cpc = "loop"
    /\ backoff = 1
    /\ conn = "none"
    /\ ctick = Nil
    /\ cmsg = Nil
    /\ cret = None
    /\ elapsed = 0
    /\ simulatedTrades = <<>>
    /\ priceTicks = <<>>
    /\ repoCall = Nil
    /\ repoCalls = 0
    /\ tickerC = 0
    /\ prevPass = Nil
    /\ tickLog = <<>>
    /\ mainpc = "serving"
    /\ shutdownLog = None
    /\ slept = 0
    /\ stamp = -1

\* The keys of e.latestPrices.
Keys == { ex \in Exchanges : latestPrices[ex] # Nil }

\* The store keyed by t.Pair, which is the same key for every source.
StoreTickByPair(prices, t) == [prices EXCEPT !["kraken"] = t]

\* The store written only when the source has no entry yet.
StoreTickKeepFirst(prices, t) ==
    IF prices[t.Exchange] = Nil THEN [prices EXCEPT ![t.Exchange] = t] ELSE prices

\* The store keeping only the newest tick: every other source's entry is
\* dropped.
StoreTickEvictOthers(prices, t) ==
    [ex \in Exchanges |-> IF ex = t.Exchange THEN t ELSE Nil]

\* The store written under every key.
StoreTickAllSources(prices, t) == [ex \in Exchanges |-> t]

\* e.latestPrices[tick.Exchange] = tick
StoreTick(prices, t) == [prices EXCEPT ![t.Exchange] = t]

\* ------------------------------------------------------------------------
\* main: shutdown and the fan-in pipeline (event-driven engine)
\* ------------------------------------------------------------------------

\* The capacity the model gives the price channel: that of main, scaled down
\* to MaxInFlight so that a full channel is reached.
ChanCap == IF MaxInFlight < PriceChanCap THEN MaxInFlight ELSE PriceChanCap

\* A channel without a capacity.
ChanAlwaysHasRoom(ch) == TRUE

\* A send on the channel can proceed: the buffer is not full.
ChanHasRoom(ch) == Len(ch) < ChanCap

\* cancel()
CancelStep ==
    /\ ~ctxDone
    /\ ctxDone' = TRUE
    /\ UNCHANGED clientVars
    /\ UNCHANGED elapsed
    /\ UNCHANGED repoVars
    /\ UNCHANGED tickerC
    /\ UNCHANGED prevPass
    /\ UNCHANGED tickLog
    /\ UNCHANGED <<slept, stamp>>
    /\ UNCHANGED <<mode, latestPrices, priceChan, priceMutex, lastSent, lastProc>>
    /\ UNCHANGED <<engineVars, histVars, writerVars>>

Cancel == CancelStep /\ UNCHANGED mainVars

\* An exchange client sends a parsed tick: select { case priceChan <- tick }.
\* The send blocks while the channel is full.
ClientSend(ex, q) ==
    /\ mode = "event"
    /\ ~ctxDone
    /\ ChanHasRoom(priceChan)
    /\ priceChan' = Append(priceChan, PriceTick(ex, q))
    /\ lastSent' = [lastSent EXCEPT ![ex] = PriceTick(ex, q)]
    /\ UNCHANGED clientVars
    /\ UNCHANGED elapsed
    /\ UNCHANGED repoVars
    /\ UNCHANGED tickerC
    /\ UNCHANGED prevPass
    /\ UNCHANGED tickLog
    /\ UNCHANGED <<mainpc, shutdownLog>>
    /\ UNCHANGED <<slept, stamp>>
    /\ UNCHANGED <<mode, latestPrices, ctxDone, priceMutex, lastProc>>
    /\ UNCHANGED <<engineVars, histVars, writerVars>>

\* A receive that hands over the tick sent last.
NextTickNewest(ch) == ch[Len(ch)]

\* The tick a receive on the channel hands over: the one sent first.
NextTick(ch) == Head(ch)

\* The engine goroutine of main takes case <-ctx.Done() and returns.
EngineStop ==
    /\ mode = "event"
    /\ pc = "select"
    /\ ctxDone
    /\ pc' = "stopped"
    /\ UNCHANGED clientVars
    /\ UNCHANGED elapsed
    /\ UNCHANGED repoVars
    /\ UNCHANGED tickerC
    /\ UNCHANGED prevPass
    /\ UNCHANGED tickLog
    /\ UNCHANGED <<mainpc, shutdownLog>>
    /\ UNCHANGED <<slept, stamp>>
    /\ UNCHANGED <<mode, latestPrices, priceChan, ctxDone, priceMutex, lastSent, lastProc>>
    /\ UNCHANGED <<tick, toVisit, exchanges, i, j, ret, cand, trade>>
    /\ UNCHANGED <<histVars, writerVars>>

\* The engine goroutine takes case tick := <-priceChan and calls ProcessTick,
\* which first calls e.repo.LogPriceTick.
EngineReceive ==
    /\ mode = "event"
    /\ pc = "select"
    /\ priceChan # <<>>
    /\ tick' = NextTick(priceChan)
    /\ priceChan' = Tail(priceChan)
    /\ lastProc' = [lastProc EXCEPT ![NextTick(priceChan).Exchange] = NextTick(priceChan)]
    /\ pc' = "logPriceTick"
    /\ UNCHANGED clientVars
    /\ UNCHANGED elapsed
    /\ UNCHANGED repoVars
    /\ UNCHANGED tickerC
    /\ UNCHANGED prevPass
    /\ UNCHANGED tickLog
    /\ UNCHANGED <<mainpc, shutdownLog>>
    /\ UNCHANGED <<slept, stamp>>
    /\ UNCHANGED <<mode, latestPrices, ctxDone, priceMutex, lastSent>>
    /\ UNCHANGED <<toVisit, exchanges, i, j, ret, cand, trade>>
    /\ UNCHANGED <<histVars, writerVars>>

\* ------------------------------------------------------------------------
\* PostgresRepository: the deadline of a persistence call
\* ------------------------------------------------------------------------

\* context.WithTimeout(ctx, 2*time.Second) in LogPriceTick
LogPriceTickTimeout == 2
\* context.WithTimeout(ctx, 5*time.Second) in LogTrade
LogTradeTimeout == 5

\* The timeout of the call the engine is in ("logTrade" or "logPriceTick").
Timeout(call) == IF call = "logTrade" THEN LogTradeTimeout ELSE LogPriceTickTimeout

\* A call made with a context that has no deadline.
DeadlineNever(call, t) == FALSE

\* The context of the call has expired after t seconds: Pool.Exec returns
\* the context's error.
DeadlineExceeded(call, t) == t >= Timeout(call)

\* The database has not answered the running call for one more second.
PersistenceWait ==
    /\ pc \in {"logTrade", "logPriceTick"}
    /\ ~DeadlineExceeded(pc, elapsed)
    /\ elapsed' = elapsed + 1
    /\ UNCHANGED clientVars
    /\ UNCHANGED repoVars
    /\ UNCHANGED tickerC
    /\ UNCHANGED prevPass
    /\ UNCHANGED tickLog
    /\ UNCHANGED <<mainpc, shutdownLog>>
    /\ UNCHANGED <<slept, stamp>>
    /\ UNCHANGED <<mode, latestPrices, priceChan, ctxDone, priceMutex, lastSent, lastProc>>
    /\ UNCHANGED <<engineVars, histVars, writerVars>>

\* ------------------------------------------------------------------------
\* Detection: the code shared by both engine variants
\* ------------------------------------------------------------------------

\* The comparison written ask <= bid.
AskNotAboveBid(ask, bid) == ask <= bid

\* The comparison that makes a direction a candidate: ask of the buy side
\* strictly below bid of the sell side.
AskBelowBid(ask, bid) == ask < bid

\* A failed LogTrade call that is issued again.
AfterLogTradeRetry(err, return) == IF err THEN "logTrade" ELSE return

\* A LogTrade error that makes the engine goroutine give up.
AfterLogTradeAbort(err, return) == IF err THEN "stopped" ELSE return

\* pc after e.repo.LogTrade has returned: the error is logged and the
\* function returns to its caller either way.
AfterLogTrade(err, return) == return

ResetHistory ==
    /\ passEvals' = {}
    /\ passLogged' = EmptyBag
    /\ passErrs' = FALSE

\* The call e.checkAndExecuteArbitrage(...) / e.evaluateAndExecute(...).
Invoke(c, return) ==
    /\ cand' = c
    /\ ret' = return
    /\ pc' = "check"
    /\ passEvals' = passEvals \cup {[c |-> c, net |-> NotComputed]}

\* A candidate submitted only if the previous pass has not logged the same
\* directed pair at the same prices.
SubmitUnlessSeen(c, netProfitEUR) ==
    /\ IsProfitable(netProfitEUR)
    /\ ~(/\ prevPass # Nil
          /\ \E t \in BagToSet(prevPass.logged) :
                /\ t.BuyExchange = c.buyExchange
                /\ t.SellExchange = c.sellExchange
                /\ t.BuyPrice = c.buyPrice
                /\ t.SellPrice = c.sellPrice)

\* Whether candidate c goes on to the delay and LogTrade: the test
\* netProfitEUR > 0 and nothing else; no earlier opportunity is consulted.
Submit(c, netProfitEUR) == IsProfitable(netProfitEUR)

\* The cost computation and the test netProfitEUR > 0.
Check ==
    /\ pc = "check"
    /\ LET calc == Evaluate(cand.buyExchange, cand.sellExchange,
                            cand.buyPrice, cand.sellPrice)
       IN  /\ passEvals' = (passEvals \ {[c |-> cand, net |-> NotComputed]})
                               \cup {[c |-> cand, net |-> calc.netProfitEUR]}
           /\ IF Submit(cand, calc.netProfitEUR)
              THEN /\ pc' = "sleep"
                   /\ UNCHANGED <<cand, ret>>
              ELSE /\ pc' = ret
                   /\ cand' = Nil
                   /\ ret' = None
    /\ UNCHANGED clientVars
    /\ UNCHANGED elapsed
    /\ UNCHANGED repoVars
    /\ UNCHANGED tickerC
    /\ UNCHANGED prevPass
    /\ UNCHANGED tickLog
    /\ UNCHANGED <<mainpc, shutdownLog>>
    /\ UNCHANGED <<slept, stamp>>
    /\ UNCHANGED <<mode, latestPrices, priceChan, ctxDone, priceMutex, lastSent, lastProc>>
    /\ UNCHANGED <<tick, toVisit, exchanges, i, j, trade>>
    /\ UNCHANGED <<passLogged, passErrs, writerVars>>

\* The trade priced from the latest ticks the two sources have submitted.
SimulatedTradeRepriced(c, calc) ==
    [BuyExchange    |-> c.buyExchange,
     SellExchange   |-> c.sellExchange,
     BuyPrice       |-> lastSent[c.buyExchange].Ask,
     SellPrice      |-> lastSent[c.sellExchange].Bid,
     VolumeEUR      |-> SimulatedTradeVolumeEUR,
     GrossProfitEUR |-> calc.grossProfitEUR,
     TotalFeesEUR   |-> calc.totalFeesEUR,
     NetProfitEUR   |-> calc.netProfitEUR]

\* A trade record whose net profit field is given the gross profit.
SimulatedTradeGrossAsNet(c, calc) ==
    [BuyExchange    |-> c.buyExchange,
     SellExchange   |-> c.sellExchange,
     BuyPrice       |-> c.buyPrice,
     SellPrice      |-> c.sellPrice,
     VolumeEUR      |-> SimulatedTradeVolumeEUR,
     GrossProfitEUR |-> calc.grossProfitEUR,
     TotalFeesEUR   |-> calc.totalFeesEUR,
     NetProfitEUR   |-> calc.grossProfitEUR]

\* model.SimulatedTrade as built after the delay.
SimulatedTrade(c, calc) ==
    [BuyExchange    |-> c.buyExchange,
     SellExchange   |-> c.sellExchange,
     BuyPrice       |-> c.buyPrice,
     SellPrice      |-> c.sellPrice,
     VolumeEUR      |-> SimulatedTradeVolumeEUR,
     GrossProfitEUR |-> calc.grossProfitEUR,
     TotalFeesEUR   |-> calc.totalFeesEUR,
     NetProfitEUR   |-> calc.netProfitEUR]

\* time.Sleep returns; the trade record is built and e.repo.LogTrade called.
SleepDoneStep ==
    /\ pc = "sleep"
    /\ trade' = SimulatedTrade(cand, Evaluate(cand.buyExchange, cand.sellExchange,
                                              cand.buyPrice, cand.sellPrice))
    /\ passLogged' = passLogged (+) SetToBag({trade'})
    /\ pc' = "logTrade"
    /\ UNCHANGED clientVars
    /\ UNCHANGED elapsed
    /\ UNCHANGED repoVars
    /\ UNCHANGED tickerC
    /\ UNCHANGED prevPass
    /\ UNCHANGED tickLog
    /\ UNCHANGED <<mainpc, shutdownLog>>
    /\ UNCHANGED <<mode, latestPrices, priceChan, ctxDone, priceMutex, lastSent, lastProc>>
    /\ UNCHANGED <<tick, toVisit, exchanges, i, j, ret, cand>>
    /\ UNCHANGED <<passEvals, passErrs, writerVars>>

SleepDone == SleepDoneStep /\ UNCHANGED <<slept, stamp>>

\* cfg.Arbitrage.SimulatedLatencyMS
SimulatedLatencyMS == 10

\* The model's clock advances in steps of this many milliseconds, and a
\* sleep has returned after at most MaxSleepMS.
ClockStepMS == 5
MaxSleepMS == 20

\* A record stamped with the time the opportunity was detected.
TimestampAtDetection(sinceDetection) == 0

\* Timestamp: time.Now(), evaluated when the record is built; the argument is
\* the time gone by since the opportunity was detected.
Timestamp(sinceDetection) == sinceDetection

\* Time passes while the engine goroutine is in time.Sleep.
SleepWait ==
    /\ pc = "sleep"
    /\ slept < MaxSleepMS
    /\ slept' = slept + ClockStepMS
    /\ UNCHANGED stamp
    /\ UNCHANGED <<mode, latestPrices, priceChan, ctxDone, priceMutex, lastSent, lastProc>>
    /\ UNCHANGED <<engineVars, histVars, writerVars, clientVars, repoVars, mainVars>>
    /\ UNCHANGED <<elapsed, tickerC, prevPass, tickLog>>

\* time.Sleep returns, not before the configured latency has gone by; the
\* record built then takes its Timestamp.
SleepDoneTimed ==
    /\ slept >= SimulatedLatencyMS
    /\ SleepDoneStep
    /\ stamp' = Timestamp(slept)
    /\ slept' = 0

\* e.repo.LogTrade returns, with or without an error; once the call's deadline
\* has passed it returns the context's error.
LogTradeReturn(err) ==
    /\ pc = "logTrade"
    /\ DeadlineExceeded("logTrade", elapsed) => err
    /\ elapsed' = 0
    /\ pc' = AfterLogTrade(err, ret)
    /\ passErrs' = (passErrs \/ err)
    /\ trade' = Nil
    /\ cand' = Nil
    /\ ret' = None
    /\ UNCHANGED clientVars
    /\ UNCHANGED repoVars
    /\ UNCHANGED tickerC
    /\ UNCHANGED prevPass
    /\ UNCHANGED tickLog
    /\ UNCHANGED <<mainpc, shutdownLog>>
    /\ UNCHANGED <<slept, stamp>>
    /\ UNCHANGED <<mode, latestPrices, priceChan, ctxDone, priceMutex, lastSent, lastProc>>
    /\ UNCHANGED <<tick, toVisit, exchanges, i, j>>
    /\ UNCHANGED <<passEvals, passLogged, writerVars>>

\* ------------------------------------------------------------------------
\* Event-driven engine: ProcessTick
\* ------------------------------------------------------------------------

\* The calls ProcessTick makes for the new tick t against a stored tick:
\* if t.Ask < latestTick.Bid {...} else if latestTick.Ask < t.Bid {...}
EventCandidates(t, latestTick) ==
    IF AskBelowBid(t.Ask, latestTick.Bid)
    THEN {Candidate(t.Exchange, latestTick.Exchange, t.Ask, latestTick.Bid)}
    ELSE IF AskBelowBid(latestTick.Ask, t.Bid)
         THEN {Candidate(latestTick.Exchange, t.Exchange, latestTick.Ask, t.Bid)}
         ELSE {}

\* A ProcessTick that returns when the tick could not be persisted.
AfterLogPriceTickFailFast(err) == IF err THEN "select" ELSE "range"

\* if err := e.repo.LogPriceTick(ctx, tick); err != nil { e.logger.Error(...) }:
\* the function goes on to the range loop either way.
AfterLogPriceTick(err) == "range"

\* e.repo.LogPriceTick returns, by its deadline at the latest (an error is
\* only logged); the tick is stored
\* and the range loop over e.latestPrices starts.
LogPriceTickReturnStep(err) ==
    /\ mode = "event"
    /\ pc = "logPriceTick"
    /\ DeadlineExceeded("logPriceTick", elapsed) => err
    /\ elapsed' = 0
    /\ latestPrices' = StoreTick(latestPrices, tick)
    /\ toVisit' = { ex \in Exchanges : latestPrices'[ex] # Nil }
    /\ pc' = AfterLogPriceTick(err)
    /\ ResetHistory
    /\ UNCHANGED clientVars
    /\ UNCHANGED repoVars
    /\ UNCHANGED tickerC
    /\ UNCHANGED prevPass
    /\ UNCHANGED <<mainpc, shutdownLog>>
    /\ UNCHANGED <<slept, stamp>>
    /\ UNCHANGED <<mode, priceChan, ctxDone, priceMutex, lastSent, lastProc>>
    /\ UNCHANGED <<tick, exchanges, i, j, ret, cand, trade>>
    /\ UNCHANGED writerVars

LogPriceTickReturn(err) == LogPriceTickReturnStep(err) /\ UNCHANGED tickLog

\* The same step, with the call that returns put on record.
LogPriceTickReturnLogged(err) ==
    /\ LogPriceTickReturnStep(err)
    /\ tickLog' = Append(tickLog, [tick |-> tick, err |-> err])

\* The test left out: the new tick is compared with its own entry too.
SameSourceNever(a, b) == FALSE

\* if exchange == tick.Exchange { continue }
SameSource(a, b) == a = b

\* One iteration of for exchange, latestTick := range e.latestPrices; the
\* iteration order of a map is arbitrary.
RangeNext(exchange) ==
    /\ mode = "event"
    /\ pc = "range"
    /\ exchange \in toVisit
    /\ toVisit' = toVisit \ {exchange}
    /\ LET cs == IF SameSource(exchange, tick.Exchange) THEN {}
                 ELSE EventCandidates(tick, latestPrices[exchange])
       IN  IF cs = {}
           THEN UNCHANGED <<pc, ret, cand, passEvals>>
           ELSE \E c \in cs : Invoke(c, "range")
    /\ UNCHANGED clientVars
    /\ UNCHANGED elapsed
    /\ UNCHANGED repoVars
    /\ UNCHANGED tickerC
    /\ UNCHANGED prevPass
    /\ UNCHANGED tickLog
    /\ UNCHANGED <<mainpc, shutdownLog>>
    /\ UNCHANGED <<slept, stamp>>
    /\ UNCHANGED <<mode, latestPrices, priceChan, ctxDone, priceMutex, lastSent, lastProc>>
    /\ UNCHANGED <<tick, exchanges, i, j, trade>>
    /\ UNCHANGED <<passLogged, passErrs, writerVars>>

\* The record of a pass that ends: the source whose tick started it (the
\* polling engine's pass has none), the store it read and the trades it
\* handed to LogTrade.
PassRecord ==
    [source |-> IF mode = "event" THEN tick.Exchange ELSE None,
     store  |-> latestPrices,
     logged |-> passLogged]

\* The range loop is over: ProcessTick returns to the select of main.
ProcessTickReturnStep ==
    /\ mode = "event"
    /\ pc = "range"
    /\ toVisit = {}
    /\ pc' = "select"
    /\ tick' = Nil
    /\ ResetHistory
    /\ UNCHANGED clientVars
    /\ UNCHANGED elapsed
    /\ UNCHANGED repoVars
    /\ UNCHANGED tickerC
    /\ UNCHANGED <<mainpc, shutdownLog>>
    /\ UNCHANGED <<slept, stamp>>
    /\ UNCHANGED <<mode, latestPrices, priceChan, ctxDone, priceMutex, lastSent, lastProc>>
    /\ UNCHANGED <<toVisit, exchanges, i, j, ret, cand, trade>>
    /\ UNCHANGED writerVars

ProcessTickReturn == ProcessTickReturnStep /\ UNCHANGED <<prevPass, tickLog>>

\* The same step, with the pass that ends put on record.
ProcessTickReturnRecorded ==
    ProcessTickReturnStep /\ prevPass' = PassRecord /\ UNCHANGED tickLog

\* The same step, with the record of the LogPriceTick calls cleared for the
\* next ProcessTick.
ProcessTickReturnLogged ==
    ProcessTickReturnStep /\ tickLog' = <<>> /\ UNCHANGED prevPass

\* ------------------------------------------------------------------------
\* Polling engine: ProcessTick, Start, checkArbitrage
\* ------------------------------------------------------------------------

\* A source calls ProcessTick(ctx, tick); the call starts with priceMutex.Lock().
ProcessTickCall(ex, q) ==
    /\ mode = "poll"
    /\ wpc[ex] = "idle"
    /\ wpc' = [wpc EXCEPT ![ex] = "lock"]
    /\ wtick' = [wtick EXCEPT ![ex] = PriceTick(ex, q)]
    /\ lastSent' = [lastSent EXCEPT ![ex] = PriceTick(ex, q)]
    /\ lastProc' = [lastProc EXCEPT ![ex] = PriceTick(ex, q)]
    /\ UNCHANGED clientVars
    /\ UNCHANGED elapsed
    /\ UNCHANGED repoVars
    /\ UNCHANGED tickerC
    /\ UNCHANGED prevPass
    /\ UNCHANGED tickLog
    /\ UNCHANGED <<mainpc, shutdownLog>>
    /\ UNCHANGED <<slept, stamp>>
    /\ UNCHANGED <<mode, latestPrices, priceChan, ctxDone, priceMutex>>
    /\ UNCHANGED <<engineVars, histVars>>

\* A write lock granted whatever the readers.
CanLockIgnoringReaders(m) == m.writer = None

\* sync.RWMutex: Lock is granted when no reader and no writer holds it.
CanLock(m) == m.writer = None /\ m.readers = 0

\* sync.RWMutex: RLock is granted when no writer holds it.
CanRLock(m) == m.writer = None

\* e.priceMutex.Lock() is granted: no reader and no other writer holds it.
ProcessTickLock(ex) ==
    /\ mode = "poll"
    /\ wpc[ex] = "lock"
    /\ CanLock(priceMutex)
    /\ priceMutex' = [priceMutex EXCEPT !.writer = ex]
    /\ wpc' = [wpc EXCEPT ![ex] = "locked"]
    /\ UNCHANGED clientVars
    /\ UNCHANGED elapsed
    /\ UNCHANGED repoVars
    /\ UNCHANGED tickerC
    /\ UNCHANGED prevPass
    /\ UNCHANGED tickLog
    /\ UNCHANGED <<mainpc, shutdownLog>>
    /\ UNCHANGED <<slept, stamp>>
    /\ UNCHANGED <<mode, latestPrices, priceChan, ctxDone, wtick, lastSent, lastProc>>
    /\ UNCHANGED <<engineVars, histVars>>

\* An ingest that starts a detection pass when the engine is idle.
AfterStoreDetect(p) == IF p = "select" THEN "rlock" ELSE p

\* Where the engine goroutine is after a ProcessTick of the polling engine:
\* where it was, the function body is the store update alone.
AfterStore(p) == p

\* e.latestPrices[tick.Exchange] = tick, then the deferred Unlock.
ProcessTickStore(ex) ==
    /\ mode = "poll"
    /\ wpc[ex] = "locked"
    /\ latestPrices' = StoreTick(latestPrices, wtick[ex])
    /\ priceMutex' = [priceMutex EXCEPT !.writer = None]
    /\ wpc' = [wpc EXCEPT ![ex] = "idle"]
    /\ wtick' = [wtick EXCEPT ![ex] = Nil]
    /\ UNCHANGED clientVars
    /\ UNCHANGED elapsed
    /\ UNCHANGED repoVars
    /\ UNCHANGED tickerC
    /\ UNCHANGED prevPass
    /\ UNCHANGED tickLog
    /\ UNCHANGED <<mainpc, shutdownLog>>
    /\ UNCHANGED <<slept, stamp>>
    /\ UNCHANGED <<mode, priceChan, ctxDone, lastSent, lastProc>>
    /\ pc' = AfterStore(pc)
    /\ UNCHANGED <<tick, toVisit, exchanges, i, j, ret, cand, trade>>
    /\ UNCHANGED histVars

\* Start takes case <-ctx.Done() and returns.
StartStop ==
    /\ mode = "poll"
    /\ pc = "select"
    /\ ctxDone
    /\ pc' = "stopped"
    /\ UNCHANGED clientVars
    /\ UNCHANGED elapsed
    /\ UNCHANGED repoVars
    /\ UNCHANGED tickerC
    /\ UNCHANGED prevPass
    /\ UNCHANGED tickLog
    /\ UNCHANGED <<mainpc, shutdownLog>>
    /\ UNCHANGED <<slept, stamp>>
    /\ UNCHANGED <<mode, latestPrices, priceChan, ctxDone, priceMutex, lastSent, lastProc>>
    /\ UNCHANGED <<tick, toVisit, exchanges, i, j, ret, cand, trade>>
    /\ UNCHANGED <<histVars, writerVars>>

\* The select of Start taking the ticker's case from any point of a pass.
ReceivesTickerAnywhere(p) == p \in {"select", "sleep", "logTrade"}

\* Start can take case <-ticker.C: its goroutine is at the select, which it
\* reaches again only when checkArbitrage has returned.
ReceivesTicker(p) == p = "select"

\* Start takes case <-ticker.C and calls checkArbitrage, which starts with
\* priceMutex.RLock().
TickerFireStep ==
    /\ mode = "poll"
    /\ ReceivesTicker(pc)
    /\ pc' = "rlock"
    /\ UNCHANGED clientVars
    /\ UNCHANGED elapsed
    /\ UNCHANGED repoVars
    /\ UNCHANGED prevPass
    /\ UNCHANGED tickLog
    /\ UNCHANGED <<mainpc, shutdownLog>>
    /\ UNCHANGED <<slept, stamp>>
    /\ UNCHANGED <<mode, latestPrices, priceChan, ctxDone, priceMutex, lastSent, lastProc>>
    /\ UNCHANGED <<tick, toVisit, exchanges, i, j, ret, cand, trade>>
    /\ UNCHANGED <<histVars, writerVars>>

\* The ticker fires and Start takes the firing, as one step.
TickerFire == TickerFireStep /\ UNCHANGED tickerC

\* The ticker fires: the firing is buffered in ticker.C, whose capacity is
\* one, or dropped when one is buffered already.
TickerTick ==
    /\ mode = "poll"
    /\ pc # "stopped"
    /\ tickerC = 0
    /\ tickerC' = 1
    /\ UNCHANGED clientVars
    /\ UNCHANGED elapsed
    /\ UNCHANGED repoVars
    /\ UNCHANGED prevPass
    /\ UNCHANGED tickLog
    /\ UNCHANGED <<mainpc, shutdownLog>>
    /\ UNCHANGED <<slept, stamp>>
    /\ UNCHANGED <<mode, latestPrices, priceChan, ctxDone, priceMutex, lastSent, lastProc>>
    /\ UNCHANGED <<engineVars, histVars, writerVars>>

\* Start takes the buffered firing.
TickerReceive == TickerFireStep /\ tickerC = 1 /\ tickerC' = 0

\* The orders in which ranging over the map can fill the slice.
KeyOrders(keys) ==
    { s \in [1..Cardinality(keys) -> keys] :
        \A a, b \in 1..Cardinality(keys) : a # b => s[a] # s[b] }

\* RLock is granted (no writer holds the mutex); the slice of keys is built.
CheckArbitrageRLock ==
    /\ mode = "poll"
    /\ pc = "rlock"
    /\ CanRLock(priceMutex)
    /\ priceMutex' = [priceMutex EXCEPT !.readers = 1]
    /\ exchanges' \in KeyOrders(Keys)
    /\ i' = 1
    /\ j' = 2
    /\ pc' = IF Len(exchanges') >= 2 THEN "dir1" ELSE "runlock"
    /\ ResetHistory
    /\ UNCHANGED clientVars
    /\ UNCHANGED elapsed
    /\ UNCHANGED repoVars
    /\ UNCHANGED tickerC
    /\ UNCHANGED prevPass
    /\ UNCHANGED tickLog
    /\ UNCHANGED <<mainpc, shutdownLog>>
    /\ UNCHANGED <<slept, stamp>>
    /\ UNCHANGED <<mode, latestPrices, priceChan, ctxDone, lastSent, lastProc>>
    /\ UNCHANGED <<tick, toVisit, ret, cand, trade>>
    /\ UNCHANGED writerVars

\* if price1.Ask < price2.Bid { e.evaluateAndExecute(ctx, ex1, ex2, ...) }
CheckDirection1 ==
    /\ mode = "poll"
    /\ pc = "dir1"
    /\ LET price1 == latestPrices[exchanges[i]]
           price2 == latestPrices[exchanges[j]]
       IN  IF AskBelowBid(price1.Ask, price2.Bid)
           THEN Invoke(Candidate(exchanges[i], exchanges[j], price1.Ask, price2.Bid), "dir2")
           ELSE /\ pc' = "dir2"
                /\ UNCHANGED <<ret, cand, passEvals>>
    /\ UNCHANGED clientVars
    /\ UNCHANGED elapsed
    /\ UNCHANGED repoVars
    /\ UNCHANGED tickerC
    /\ UNCHANGED prevPass
    /\ UNCHANGED tickLog
    /\ UNCHANGED <<mainpc, shutdownLog>>
    /\ UNCHANGED <<slept, stamp>>
    /\ UNCHANGED <<mode, latestPrices, priceChan, ctxDone, priceMutex, lastSent, lastProc>>
    /\ UNCHANGED <<tick, toVisit, exchanges, i, j, trade>>
    /\ UNCHANGED <<passLogged, passErrs, writerVars>>

\* if price2.Ask < price1.Bid { e.evaluateAndExecute(ctx, ex2, ex1, ...) }
CheckDirection2 ==
    /\ mode = "poll"
    /\ pc = "dir2"
    /\ LET price1 == latestPrices[exchanges[i]]
           price2 == latestPrices[exchanges[j]]
       IN  IF AskBelowBid(price2.Ask, price1.Bid)
           THEN Invoke(Candidate(exchanges[j], exchanges[i], price2.Ask, price1.Bid), "advance")
           ELSE /\ pc' = "advance"
                /\ UNCHANGED <<ret, cand, passEvals>>
    /\ UNCHANGED clientVars
    /\ UNCHANGED elapsed
    /\ UNCHANGED repoVars
    /\ UNCHANGED tickerC
    /\ UNCHANGED prevPass
    /\ UNCHANGED tickLog
    /\ UNCHANGED <<mainpc, shutdownLog>>
    /\ UNCHANGED <<slept, stamp>>
    /\ UNCHANGED <<mode, latestPrices, priceChan, ctxDone, priceMutex, lastSent, lastProc>>
    /\ UNCHANGED <<tick, toVisit, exchanges, i, j, trade>>
    /\ UNCHANGED <<passLogged, passErrs, writerVars>>

\* j++ of the inner loop, and i++ of the outer loop when the inner one ends.
Advance ==
    /\ mode = "poll"
    /\ pc = "advance"
    /\ IF j + 1 <= Len(exchanges)
       THEN /\ j' = j + 1
            /\ i' = i
            /\ pc' = "dir1"
       ELSE /\ i' = i + 1
            /\ j' = i + 2
            /\ pc' = IF i + 2 <= Len(exchanges) THEN "dir1" ELSE "runlock"
    /\ UNCHANGED clientVars
    /\ UNCHANGED elapsed
    /\ UNCHANGED repoVars
    /\ UNCHANGED tickerC
    /\ UNCHANGED prevPass
    /\ UNCHANGED tickLog
    /\ UNCHANGED <<mainpc, shutdownLog>>
    /\ UNCHANGED <<slept, stamp>>
    /\ UNCHANGED <<mode, latestPrices, priceChan, ctxDone, priceMutex, lastSent, lastProc>>
    /\ UNCHANGED <<tick, toVisit, exchanges, ret, cand, trade>>
    /\ UNCHANGED <<histVars, writerVars>>

\* The loops are over: the deferred RUnlock runs and checkArbitrage returns
\* to the select of Start.
CheckArbitrageReturnStep ==
    /\ mode = "poll"
    /\ pc = "runlock"
    /\ priceMutex' = [priceMutex EXCEPT !.readers = 0]
    /\ exchanges' = <<>>
    /\ i' = 0
    /\ j' = 0
    /\ pc' = "select"
    /\ ResetHistory
    /\ UNCHANGED clientVars
    /\ UNCHANGED elapsed
    /\ UNCHANGED repoVars
    /\ UNCHANGED tickerC
    /\ UNCHANGED tickLog
    /\ UNCHANGED <<mainpc, shutdownLog>>
    /\ UNCHANGED <<slept, stamp>>
    /\ UNCHANGED <<mode, latestPrices, priceChan, ctxDone, lastSent, lastProc>>
    /\ UNCHANGED <<tick, toVisit, ret, cand, trade>>
    /\ UNCHANGED writerVars

CheckArbitrageReturn == CheckArbitrageReturnStep /\ UNCHANGED prevPass

\* The same step, with the pass that ends put on record.
CheckArbitrageReturnRecorded == CheckArbitrageReturnStep /\ prevPass' = PassRecord

\* ------------------------------------------------------------------------
\* Exchange clients: StartStream
\* ------------------------------------------------------------------------

\* The StartStream implementations: KrakenClient (dials, then sends a
\* subscription), BinanceClient (dials a stream URL), and the placeholder
\* KrakenClient (sleeps and doubles its backoff, never connects).
Clients == {"kraken", "binance", "placeholder"}

\* The Exchange field of the ticks a client builds.
ExchangeOf(cl) == IF cl = "binance" THEN "binance" ELSE "kraken"

\* 16*time.Second, the ceiling of the backoff
MaxBackoff == 16

\* The doubling left without its ceiling.
NextBackoffUncapped(b) == b * 2

\* backoff *= 2; if backoff > 16*time.Second { backoff = 16 * time.Second }
NextBackoff(b) == IF b * 2 > MaxBackoff THEN MaxBackoff ELSE b * 2

\* Top of the outer loop: select { case <-ctx.Done(): return nil; default: }.
\* The default branch dials (the placeholder sleeps instead).
StartStreamLoop ==
    /\ client # None
    /\ cpc = "loop"
    /\ cpc' = IF ctxDone THEN "returned"
              ELSE IF client = "placeholder" THEN "placeholderSleep"
              ELSE "dial"
    /\ UNCHANGED <<client, backoff, conn, ctick>>
    /\ UNCHANGED cmsg
    /\ cret' = IF ctxDone THEN "nil" ELSE cret
    /\ UNCHANGED elapsed
    /\ UNCHANGED repoVars
    /\ UNCHANGED tickerC
    /\ UNCHANGED prevPass
    /\ UNCHANGED tickLog
    /\ UNCHANGED <<mainpc, shutdownLog>>
    /\ UNCHANGED <<slept, stamp>>
    /\ UNCHANGED <<mode, latestPrices, priceChan, ctxDone, priceMutex, lastSent, lastProc>>
    /\ UNCHANGED <<engineVars, histVars, writerVars>>

\* A client that gives up when it cannot connect.
AfterDialGiveUp(cl, ok) ==
    IF ok THEN (IF cl = "kraken" THEN "subscribe" ELSE "msgSelect") ELSE "returned"

\* Where the client goes when Dial has returned: on to its subscription
\* (KrakenClient) or its message loop, or into the backoff wait on an error.
AfterDial(cl, ok) ==
    IF ok THEN (IF cl = "kraken" THEN "subscribe" ELSE "msgSelect") ELSE "backoffWait"

\* The backoff left as the failures before the connection made it.
BackoffKept(b) == b

\* backoff = time.Second, after a successful Dial
BackoffAfterDial(b) == 1

\* websocket.DefaultDialer.Dial returns. On success the backoff is reset and
\* KrakenClient goes on to send its subscription; on failure the client waits.
DialReturn(ok) ==
    /\ client # None
    /\ cpc = "dial"
    /\ cpc' = AfterDial(client, ok)
    /\ IF ok
       THEN /\ conn' = "open"
            /\ backoff' = BackoffAfterDial(backoff)
       ELSE UNCHANGED <<conn, backoff>>
    /\ UNCHANGED <<client, ctick>>
    /\ UNCHANGED <<cmsg, cret>>
    /\ UNCHANGED elapsed
    /\ UNCHANGED repoVars
    /\ UNCHANGED tickerC
    /\ UNCHANGED prevPass
    /\ UNCHANGED tickLog
    /\ UNCHANGED <<mainpc, shutdownLog>>
    /\ UNCHANGED <<slept, stamp>>
    /\ UNCHANGED <<mode, latestPrices, priceChan, ctxDone, priceMutex, lastSent, lastProc>>
    /\ UNCHANGED <<engineVars, histVars, writerVars>>

\* c.WriteJSON(subscription) returns; on an error the connection is closed
\* and the client waits.
SubscribeReturn(ok) ==
    /\ client = "kraken"
    /\ cpc = "subscribe"
    /\ IF ok
       THEN /\ cpc' = "msgSelect"
            /\ UNCHANGED conn
       ELSE /\ conn' = "closed"
            /\ cpc' = "backoffWait"
    /\ UNCHANGED <<client, backoff, ctick>>
    /\ UNCHANGED <<cmsg, cret>>
    /\ UNCHANGED elapsed
    /\ UNCHANGED repoVars
    /\ UNCHANGED tickerC
    /\ UNCHANGED prevPass
    /\ UNCHANGED tickLog
    /\ UNCHANGED <<mainpc, shutdownLog>>
    /\ UNCHANGED <<slept, stamp>>
    /\ UNCHANGED <<mode, latestPrices, priceChan, ctxDone, priceMutex, lastSent, lastProc>>
    /\ UNCHANGED <<engineVars, histVars, writerVars>>

\* select { case <-ctx.Done(): ...; case <-time.After(backoff): ... } takes
\* the timer: the backoff is doubled up to its ceiling, then continue.
BackoffWaitDone ==
    /\ client # None
    /\ cpc = "backoffWait"
    /\ backoff' = NextBackoff(backoff)
    /\ cpc' = "loop"
    /\ UNCHANGED <<client, conn, ctick>>
    /\ UNCHANGED <<cmsg, cret>>
    /\ UNCHANGED elapsed
    /\ UNCHANGED repoVars
    /\ UNCHANGED tickerC
    /\ UNCHANGED prevPass
    /\ UNCHANGED tickLog
    /\ UNCHANGED <<mainpc, shutdownLog>>
    /\ UNCHANGED <<slept, stamp>>
    /\ UNCHANGED <<mode, latestPrices, priceChan, ctxDone, priceMutex, lastSent, lastProc>>
    /\ UNCHANGED <<engineVars, histVars, writerVars>>

\* The same select takes case <-ctx.Done(): return nil.
BackoffWaitCancelled ==
    /\ client # None
    /\ cpc = "backoffWait"
    /\ ctxDone
    /\ cpc' = "returned"
    /\ UNCHANGED <<client, backoff, conn, ctick>>
    /\ UNCHANGED cmsg
    /\ cret' = "nil"
    /\ UNCHANGED elapsed
    /\ UNCHANGED repoVars
    /\ UNCHANGED tickerC
    /\ UNCHANGED prevPass
    /\ UNCHANGED tickLog
    /\ UNCHANGED <<mainpc, shutdownLog>>
    /\ UNCHANGED <<slept, stamp>>
    /\ UNCHANGED <<mode, latestPrices, priceChan, ctxDone, priceMutex, lastSent, lastProc>>
    /\ UNCHANGED <<engineVars, histVars, writerVars>>

\* The placeholder's time.Sleep(backoff) returns and the backoff is doubled.
PlaceholderSleepDone ==
    /\ client = "placeholder"
    /\ cpc = "placeholderSleep"
    /\ backoff' = NextBackoff(backoff)
    /\ cpc' = "loop"
    /\ UNCHANGED <<client, conn, ctick>>
    /\ UNCHANGED <<cmsg, cret>>
    /\ UNCHANGED elapsed
    /\ UNCHANGED repoVars
    /\ UNCHANGED tickerC
    /\ UNCHANGED prevPass
    /\ UNCHANGED tickLog
    /\ UNCHANGED <<mainpc, shutdownLog>>
    /\ UNCHANGED <<slept, stamp>>
    /\ UNCHANGED <<mode, latestPrices, priceChan, ctxDone, priceMutex, lastSent, lastProc>>
    /\ UNCHANGED <<engineVars, histVars, writerVars>>

\* Top of the message loop: select { case <-ctx.Done(): c.Close(); return nil;
\* default: c.ReadMessage() }.
MessageLoopSelect ==
    /\ client # None
    /\ cpc = "msgSelect"
    /\ IF ctxDone
       THEN /\ conn' = "closed"
            /\ cpc' = "returned"
       ELSE /\ cpc' = "read"
            /\ UNCHANGED conn
    /\ UNCHANGED <<client, backoff, ctick>>
    /\ cmsg' = Nil
    /\ cret' = IF ctxDone THEN "nil" ELSE cret
    /\ UNCHANGED elapsed
    /\ UNCHANGED repoVars
    /\ UNCHANGED tickerC
    /\ UNCHANGED prevPass
    /\ UNCHANGED tickLog
    /\ UNCHANGED <<mainpc, shutdownLog>>
    /\ UNCHANGED <<slept, stamp>>
    /\ UNCHANGED <<mode, latestPrices, priceChan, ctxDone, priceMutex, lastSent, lastProc>>
    /\ UNCHANGED <<engineVars, histVars, writerVars>>

\* Where the client is after the break that follows a read error. The break
\* is inside the select statement, so it ends the select and the enclosing
\* for loop goes on to its next iteration.
AfterReadError == "msgSelect"

\* c.ReadMessage() returns an error (on a closed connection it can return
\* nothing else): the error is logged, the connection closed, then break.
ReadMessageError ==
    /\ client # None
    /\ cpc = "read"
    /\ conn' = "closed"
    /\ cpc' = AfterReadError
    /\ UNCHANGED <<client, backoff, ctick>>
    /\ UNCHANGED <<cmsg, cret>>
    /\ UNCHANGED elapsed
    /\ UNCHANGED repoVars
    /\ UNCHANGED tickerC
    /\ UNCHANGED prevPass
    /\ UNCHANGED tickLog
    /\ UNCHANGED <<mainpc, shutdownLog>>
    /\ UNCHANGED <<slept, stamp>>
    /\ UNCHANGED <<mode, latestPrices, priceChan, ctxDone, priceMutex, lastSent, lastProc>>
    /\ UNCHANGED <<engineVars, histVars, writerVars>>

\* c.ReadMessage() returns a message that yields no tick (a subscription
\* status, unparseable JSON, a missing or malformed price): continue.
ReadMessageSkip ==
    /\ client # None
    /\ cpc = "read"
    /\ conn = "open"
    /\ cpc' = "msgSelect"
    /\ UNCHANGED <<client, backoff, conn, ctick>>
    /\ UNCHANGED <<cmsg, cret>>
    /\ UNCHANGED elapsed
    /\ UNCHANGED repoVars
    /\ UNCHANGED tickerC
    /\ UNCHANGED prevPass
    /\ UNCHANGED tickLog
    /\ UNCHANGED <<mainpc, shutdownLog>>
    /\ UNCHANGED <<slept, stamp>>
    /\ UNCHANGED <<mode, latestPrices, priceChan, ctxDone, priceMutex, lastSent, lastProc>>
    /\ UNCHANGED <<engineVars, histVars, writerVars>>

\* c.ReadMessage() returns a ticker message with bid and ask: the tick is
\* built and the client enters select { case priceChan <- tick; case <-ctx.Done() }.
ReadMessageTick(q) ==
    /\ client # None
    /\ cpc = "read"
    /\ conn = "open"
    /\ ctick' = PriceTick(ExchangeOf(client), q)
    /\ cpc' = "send"
    /\ UNCHANGED <<client, backoff, conn>>
    /\ UNCHANGED <<cmsg, cret>>
    /\ UNCHANGED elapsed
    /\ UNCHANGED repoVars
    /\ UNCHANGED tickerC
    /\ UNCHANGED prevPass
    /\ UNCHANGED tickLog
    /\ UNCHANGED <<mainpc, shutdownLog>>
    /\ UNCHANGED <<slept, stamp>>
    /\ UNCHANGED <<mode, latestPrices, priceChan, ctxDone, priceMutex, lastSent, lastProc>>
    /\ UNCHANGED <<engineVars, histVars, writerVars>>

\* case priceChan <- tick: the channel has room.
SendTick ==
    /\ client # None
    /\ cpc = "send"
    /\ ChanHasRoom(priceChan)
    /\ priceChan' = Append(priceChan, ctick)
    /\ lastSent' = [lastSent EXCEPT ![ctick.Exchange] = ctick]
    /\ ctick' = Nil
    /\ cpc' = "msgSelect"
    /\ UNCHANGED <<client, backoff, conn>>
    /\ UNCHANGED <<cmsg, cret>>
    /\ UNCHANGED elapsed
    /\ UNCHANGED repoVars
    /\ UNCHANGED tickerC
    /\ UNCHANGED prevPass
    /\ UNCHANGED tickLog
    /\ UNCHANGED <<mainpc, shutdownLog>>
    /\ UNCHANGED <<slept, stamp>>
    /\ UNCHANGED <<mode, latestPrices, ctxDone, priceMutex, lastProc>>
    /\ UNCHANGED <<engineVars, histVars, writerVars>>

\* case <-ctx.Done(): c.Close(); return nil
SendCancelled ==
    /\ client # None
    /\ cpc = "send"
    /\ ctxDone
    /\ conn' = "closed"
    /\ cpc' = "returned"
    /\ UNCHANGED <<client, backoff, ctick>>
    /\ UNCHANGED cmsg
    /\ cret' = "nil"
    /\ UNCHANGED elapsed
    /\ UNCHANGED repoVars
    /\ UNCHANGED tickerC
    /\ UNCHANGED prevPass
    /\ UNCHANGED tickLog
    /\ UNCHANGED <<mainpc, shutdownLog>>
    /\ UNCHANGED <<slept, stamp>>
    /\ UNCHANGED <<mode, latestPrices, priceChan, ctxDone, priceMutex, lastSent, lastProc>>
    /\ UNCHANGED <<engineVars, histVars, writerVars>>

\* main with one exchange client followed through StartStream and the
\* event-driven engine consuming the price channel.
ClientInit ==
    /\ mode = "event"
    /\ latestPrices = [ex \in Exchanges |-> Nil]
    /\ priceChan = <<>>
    /\ ctxDone = FALSE
    /\ pc = "select"
    /\ tick = Nil
    /\ toVisit = {}
    /\ exchanges = <<>>
    /\ i = 0
    /\ j = 0
    /\ ret = None
    /\ cand = Nil
    /\ trade = Nil
    /\ priceMutex = [writer |-> None, readers |-> 0]
    /\ wpc = [ex \in Exchanges |-> "idle"]
    /\ wtick = [ex \in Exchanges |-> Nil]
    /\ lastSent = [ex \in Exchanges |-> Nil]
    /\ lastProc = [ex \in Exchanges |-> Nil]
    /\ passEvals = {}
    /\ passLogged = EmptyBag
    /\ passErrs = FALSE
    /\ client \in Clients
    /\ cpc = "loop"
    /\ backoff = 1
    /\ conn = "none"
    /\ ctick = Nil
    /\ cmsg = Nil
    /\ cret = None
    /\ elapsed = 0
    /\ simulatedTrades = <<>>
    /\ priceTicks = <<>>
    /\ repoCall = Nil
    /\ repoCalls = 0
    /\ tickerC = 0
    /\ prevPass = Nil
    /\ tickLog = <<>>
    /\ mainpc = "serving"
    /\ shutdownLog = None
    /\ slept = 0
    /\ stamp = -1

\* ------------------------------------------------------------------------
\* PostgresRepository: LogTrade, LogPriceTick, Migrate and their tables
\* ------------------------------------------------------------------------

\* NUMERIC(20, 8): the number of digits kept after the decimal point.
NumericScale == 8
\* trading_pair and pair are VARCHAR(20), the exchange columns VARCHAR(50).
PairWidth == 20
ExchangeWidth == 50

RECURSIVE Pow10(_)
Pow10(k) == IF k = 0 THEN 1 ELSE 10 * Pow10(k - 1)

\* The first k decimal digits of r/d (0 <= r < d), as one integer v, and the
\* remainder r left after them.
RECURSIVE FracDigits(_, _, _)
FracDigits(r, d, k) ==
    IF k = 0 THEN [v |-> 0, r |-> r]
    ELSE LET rest == FracDigits((r * 10) % d, d, k - 1)
         IN  [v |-> ((r * 10) \div d) * Pow10(k - 1) + rest.v, r |-> rest.r]

\* The value a NUMERIC(20, 8) column keeps of the float64 x: x rounded to
\* NumericScale decimals, ties away from zero, held as sign, integer part and
\* the decimals as one integer; NaN is kept as NaN.
ToNumeric(x) ==
    IF x.k # "fin" THEN [k |-> x.k, sign |-> Sign(x), int |-> 0, frac |-> 0]
    ELSE LET a     == Abs(x.n)
             fd    == FracDigits(a % x.d, x.d, NumericScale)
             v     == fd.v + (IF 2 * fd.r >= x.d THEN 1 ELSE 0)
             carry == IF v = Pow10(NumericScale) THEN 1 ELSE 0
             int   == (a \div x.d) + carry
             frac  == IF carry = 1 THEN 0 ELSE v
         IN  [k    |-> "fin",
              sign |-> IF int = 0 /\ frac = 0 THEN 0 ELSE Sign(x),
              int  |-> int,
              frac |-> frac]

\* A column with a precision rejects an infinite value ("numeric field
\* overflow"); so it does a value of more than twelve integer digits, which
\* the integers of this model do not reach.
NumericFits(x) == x.k # "inf"

RECURSIVE AllSpaces(_, _)
AllSpaces(str, from) ==
    from > Len(str) \/ (SubSeq(str, from, from) = " " /\ AllSpaces(str, from + 1))

\* VARCHAR(n) takes a longer string only if what exceeds n is all spaces,
\* and then stores it cut to n characters.
VarcharFits(str, n) == Len(str) <= n \/ AllSpaces(str, n + 1)
ToVarchar(str, n) == IF Len(str) <= n THEN str ELSE SubSeq(str, 1, n)

\* The row with buy_price and sell_price bound to each other's parameter.
TradeRowSwappedPrices(t) ==
    [trading_pair     |-> ToVarchar(t.TradingPair, PairWidth),
     buy_exchange     |-> ToVarchar(t.BuyExchange, ExchangeWidth),
     sell_exchange    |-> ToVarchar(t.SellExchange, ExchangeWidth),
     buy_price        |-> ToNumeric(t.SellPrice),
     sell_price       |-> ToNumeric(t.BuyPrice),
     volume_eur       |-> ToNumeric(t.VolumeEUR),
     gross_profit_eur |-> ToNumeric(t.GrossProfitEUR),
     total_fees_eur   |-> ToNumeric(t.TotalFeesEUR),
     net_profit_eur   |-> ToNumeric(t.NetProfitEUR)]

\* The row INSERT INTO simulated_trades (...) VALUES ($1, ..., $10) stores
\* for trade t. The columns id (from the table's sequence) and timestamp are
\* left out of the row.
TradeRow(t) ==
    [trading_pair     |-> ToVarchar(t.TradingPair, PairWidth),
     buy_exchange     |-> ToVarchar(t.BuyExchange, ExchangeWidth),
     sell_exchange    |-> ToVarchar(t.SellExchange, ExchangeWidth),
     buy_price        |-> ToNumeric(t.BuyPrice),
     sell_price       |-> ToNumeric(t.SellPrice),
     volume_eur       |-> ToNumeric(t.VolumeEUR),
     gross_profit_eur |-> ToNumeric(t.GrossProfitEUR),
     total_fees_eur   |-> ToNumeric(t.TotalFeesEUR),
     net_profit_eur   |-> ToNumeric(t.NetProfitEUR)]

\* The error of the INSERT of trade t once the server executes it.
InsertTradeError(t) ==
    IF \/ ~VarcharFits(t.TradingPair, PairWidth)
       \/ ~VarcharFits(t.BuyExchange, ExchangeWidth)
       \/ ~VarcharFits(t.SellExchange, ExchangeWidth)
    THEN "value too long"
    ELSE IF \E x \in {t.BuyPrice, t.SellPrice, t.VolumeEUR, t.GrossProfitEUR,
                      t.TotalFeesEUR, t.NetProfitEUR} : ~NumericFits(x)
    THEN "numeric field overflow"
    ELSE "nil"

\* The row INSERT INTO price_ticks (...) VALUES ($1, ..., $5) stores.
TickRow(t) ==
    [exchange |-> ToVarchar(t.Exchange, ExchangeWidth),
     pair     |-> ToVarchar(t.Pair, PairWidth),
     bid      |-> ToNumeric(t.Bid),
     ask      |-> ToNumeric(t.Ask)]

InsertTickError(t) ==
    IF ~VarcharFits(t.Exchange, ExchangeWidth) \/ ~VarcharFits(t.Pair, PairWidth)
    THEN "value too long"
    ELSE IF ~NumericFits(t.Bid) \/ ~NumericFits(t.Ask)
    THEN "numeric field overflow"
    ELSE "nil"

\* What r.Pool.Exec returns: the server's answer if the statement is served
\* within the call's deadline, the context's error otherwise.
ExecError(served, answer) ==
    IF served THEN answer ELSE "context deadline exceeded"

\* `return err`
ReturnedError(execErr) == execErr

\* The trade of TestPostgresRepository_LogTrade.
TestTrade ==
    [TradingPair    |-> "BTC/EUR",
     BuyExchange    |-> "kraken",
     SellExchange   |-> "binance",
     BuyPrice       |-> F(60000),
     SellPrice      |-> F(60100),
     VolumeEUR      |-> F(1000),
     GrossProfitEUR |-> Fin(166666667, 100000000),
     TotalFeesEUR   |-> Fin(186, 100),
     NetProfitEUR   |-> Fin(-19333333, 100000000)]

\* The trade the engine builds for candidate c, under trading pair `pair`.
EngineTrade(pair, c) ==
    LET calc == Evaluate(c.buyExchange, c.sellExchange, c.buyPrice, c.sellPrice)
    IN  [TradingPair    |-> pair,
         BuyExchange    |-> c.buyExchange,
         SellExchange   |-> c.sellExchange,
         BuyPrice       |-> F(c.buyPrice),
         SellPrice      |-> F(c.sellPrice),
         VolumeEUR      |-> F(SimulatedTradeVolumeEUR),
         GrossProfitEUR |-> calc.grossProfitEUR,
         TotalFeesEUR   |-> calc.totalFeesEUR,
         NetProfitEUR   |-> calc.netProfitEUR]

\* Trades LogTrade is called with: the test's, two the engine computes (one
\* of them from an ask of 0), one whose pair is too long for its column and
\* one whose pair is too long by spaces only.
RepoTrades ==
    { TestTrade,
      EngineTrade("BTC/EUR", Candidate("kraken", "binance", 4995, 5038)),
      EngineTrade("BTC/EUR", Candidate("coinbase", "kraken", 0, 4995)),
      EngineTrade("BTC/EUR-PERPETUAL-2026", Candidate("kraken", "binance", 4995, 6000)),
      EngineTrade("BTC/EUR              ", Candidate("kraken", "binance", 4995, 6000)) }

RepoTicks ==
    { [Exchange |-> "kraken", Pair |-> "BTC/EUR", Bid |-> F(60000), Ask |-> F(60050)],
      [Exchange |-> "binance", Pair |-> "BTC/EUR", Bid |-> Fin(120001, 2), Ask |-> F(60100)] }

\* Calls made of the repository in one run.
MaxRepoCalls == 3

\* PostgresRepository.LogTrade(ctx, t), called directly.
LogTrade(t, served) ==
    /\ pc = "caller"
    /\ repoCalls < MaxRepoCalls
    /\ LET execErr == ExecError(served, InsertTradeError(t))
       IN  /\ simulatedTrades' = IF execErr = "nil"
                                 THEN Append(simulatedTrades, TradeRow(t))
                                 ELSE simulatedTrades
           /\ repoCall' = [op |-> "LogTrade", arg |-> t, execErr |-> execErr,
                           err |-> ReturnedError(execErr)]
    /\ repoCalls' = repoCalls + 1
    /\ UNCHANGED priceTicks
    /\ UNCHANGED tickerC
    /\ UNCHANGED prevPass
    /\ UNCHANGED tickLog
    /\ UNCHANGED <<mainpc, shutdownLog>>
    /\ UNCHANGED <<slept, stamp>>
    /\ UNCHANGED <<mode, latestPrices, priceChan, ctxDone, priceMutex, lastSent, lastProc>>
    /\ UNCHANGED <<engineVars, histVars, writerVars, clientVars, elapsed>>

\* PostgresRepository.LogPriceTick(ctx, t), called directly.
LogPriceTick(t, served) ==
    /\ pc = "caller"
    /\ repoCalls < MaxRepoCalls
    /\ LET execErr == ExecError(served, InsertTickError(t))
       IN  /\ priceTicks' = IF execErr = "nil"
                            THEN Append(priceTicks, TickRow(t))
                            ELSE priceTicks
           /\ repoCall' = [op |-> "LogPriceTick", arg |-> t, execErr |-> execErr,
                           err |-> ReturnedError(execErr)]
    /\ repoCalls' = repoCalls + 1
    /\ UNCHANGED simulatedTrades
    /\ UNCHANGED tickerC
    /\ UNCHANGED prevPass
    /\ UNCHANGED tickLog
    /\ UNCHANGED <<mainpc, shutdownLog>>
    /\ UNCHANGED <<slept, stamp>>
    /\ UNCHANGED <<mode, latestPrices, priceChan, ctxDone, priceMutex, lastSent, lastProc>>
    /\ UNCHANGED <<engineVars, histVars, writerVars, clientVars, elapsed>>

\* PostgresRepository.Migrate(ctx) on a database that has both tables:
\* CREATE TABLE IF NOT EXISTS leaves them as they are.
Migrate(served) ==
    /\ pc = "caller"
    /\ repoCalls < MaxRepoCalls
    /\ LET execErr == ExecError(served, "nil")
       IN  repoCall' = [op |-> "Migrate", arg |-> Nil, execErr |-> execErr,
                        err |-> ReturnedError(execErr)]
    /\ repoCalls' = repoCalls + 1
    /\ UNCHANGED <<simulatedTrades, priceTicks>>
    /\ UNCHANGED tickerC
    /\ UNCHANGED prevPass
    /\ UNCHANGED tickLog
    /\ UNCHANGED <<mainpc, shutdownLog>>
    /\ UNCHANGED <<slept, stamp>>
    /\ UNCHANGED <<mode, latestPrices, priceChan, ctxDone, priceMutex, lastSent, lastProc>>
    /\ UNCHANGED <<engineVars, histVars, writerVars, clientVars, elapsed>>

\* ------------------------------------------------------------------------
\* Specification
\* ------------------------------------------------------------------------

Next ==
    \/ Cancel
    \/ \E ex \in Exchanges : \E q \in QuotesOf(ex) : ClientSend(ex, q)
    \/ EngineStop
    \/ EngineReceive
    \/ \E err \in BOOLEAN : LogPriceTickReturn(err)
    \/ \E ex \in Exchanges : RangeNext(ex)
    \/ ProcessTickReturn
    \/ Check
    \/ SleepDone
    \/ \E err \in BOOLEAN : LogTradeReturn(err)
    \/ PersistenceWait
    \/ \E ex \in Exchanges : \E q \in QuotesOf(ex) : ProcessTickCall(ex, q)
    \/ \E ex \in Exchanges : ProcessTickLock(ex)
    \/ \E ex \in Exchanges : ProcessTickStore(ex)
    \/ StartStop
    \/ TickerFire
    \/ CheckArbitrageRLock
    \/ CheckDirection1
    \/ CheckDirection2
    \/ Advance
    \/ CheckArbitrageReturn

Spec == Init /\ [][Next]_vars

\* The engines fed with the quotes of the tests by kraken and binance.
ExampleNext ==
    \/ Cancel
    \/ \E ex \in {"kraken", "binance"} : \E q \in ExampleQuotesOf(ex) : ClientSend(ex, q)
    \/ EngineStop
    \/ EngineReceive
    \/ \E err \in BOOLEAN : LogPriceTickReturn(err)
    \/ \E ex \in Exchanges : RangeNext(ex)
    \/ ProcessTickReturn
    \/ Check
    \/ SleepDone
    \/ \E err \in BOOLEAN : LogTradeReturn(err)
    \/ PersistenceWait
    \/ \E ex \in {"kraken", "binance"} : \E q \in ExampleQuotesOf(ex) : ProcessTickCall(ex, q)
    \/ \E ex \in Exchanges : ProcessTickLock(ex)
    \/ \E ex \in Exchanges : ProcessTickStore(ex)
    \/ StartStop
    \/ TickerFire
    \/ CheckArbitrageRLock
    \/ CheckDirection1
    \/ CheckDirection2
    \/ Advance
    \/ CheckArbitrageReturn

ExampleSpec == Init /\ [][ExampleNext]_vars

\* The engines fed by kraken and binance, each pass put on record when it
\* ends.
HistoryNext ==
    \/ Cancel
    \/ \E ex \in {"kraken", "binance"} : \E q \in QuotesOf(ex) : ClientSend(ex, q)
    \/ EngineStop
    \/ EngineReceive
    \/ \E err \in BOOLEAN : LogPriceTickReturn(err)
    \/ \E ex \in Exchanges : RangeNext(ex)
    \/ ProcessTickReturnRecorded
    \/ Check
    \/ SleepDone
    \/ \E err \in BOOLEAN : LogTradeReturn(err)
    \/ PersistenceWait
    \/ \E ex \in {"kraken", "binance"} : \E q \in QuotesOf(ex) : ProcessTickCall(ex, q)
    \/ \E ex \in Exchanges : ProcessTickLock(ex)
    \/ \E ex \in Exchanges : ProcessTickStore(ex)
    \/ StartStop
    \/ TickerFire
    \/ CheckArbitrageRLock
    \/ CheckDirection1
    \/ CheckDirection2
    \/ Advance
    \/ CheckArbitrageReturnRecorded

HistorySpec == Init /\ [][HistoryNext]_vars

\* The polling engine with the ticker's channel: firings are buffered by
\* TickerTick and taken by TickerReceive.
StartInit == Init /\ mode = "poll"

StartNext ==
    \/ Cancel
    \/ \E ex \in Exchanges : \E q \in QuotesOf(ex) : ProcessTickCall(ex, q)
    \/ \E ex \in Exchanges : ProcessTickLock(ex)
    \/ \E ex \in Exchanges : ProcessTickStore(ex)
    \/ StartStop
    \/ TickerTick
    \/ TickerReceive
    \/ CheckArbitrageRLock
    \/ CheckDirection1
    \/ CheckDirection2
    \/ Advance
    \/ CheckArbitrageReturn
    \/ Check
    \/ SleepDone
    \/ \E err \in BOOLEAN : LogTradeReturn(err)
    \/ PersistenceWait

StartSpec == StartInit /\ [][StartNext]_vars

\* The engines fed by kraken, which has a configured fee, and coinbase,
\* which has no entry in cfg.Exchanges.
MissingFeeNext ==
    \/ Cancel
    \/ \E ex \in {"kraken", "coinbase"} : \E q \in QuotesOf(ex) : ClientSend(ex, q)
    \/ EngineStop
    \/ EngineReceive
    \/ \E err \in BOOLEAN : LogPriceTickReturn(err)
    \/ \E ex \in Exchanges : RangeNext(ex)
    \/ ProcessTickReturn
    \/ Check
    \/ SleepDone
    \/ \E err \in BOOLEAN : LogTradeReturn(err)
    \/ PersistenceWait
    \/ \E ex \in {"kraken", "coinbase"} : \E q \in QuotesOf(ex) : ProcessTickCall(ex, q)
    \/ \E ex \in Exchanges : ProcessTickLock(ex)
    \/ \E ex \in Exchanges : ProcessTickStore(ex)
    \/ StartStop
    \/ TickerFire
    \/ CheckArbitrageRLock
    \/ CheckDirection1
    \/ CheckDirection2
    \/ Advance
    \/ CheckArbitrageReturn

MissingFeeSpec == Init /\ [][MissingFeeNext]_vars

\* The engines fed by kraken and binance, with the time spent in the
\* simulated-latency delay.
DelayNext ==
    \/ Cancel
    \/ \E ex \in {"kraken", "binance"} : \E q \in QuotesOf(ex) : ClientSend(ex, q)
    \/ EngineStop
    \/ EngineReceive
    \/ \E err \in BOOLEAN : LogPriceTickReturn(err)
    \/ \E ex \in Exchanges : RangeNext(ex)
    \/ ProcessTickReturn
    \/ Check
    \/ SleepWait
    \/ SleepDoneTimed
    \/ \E err \in BOOLEAN : LogTradeReturn(err)
    \/ PersistenceWait
    \/ \E ex \in {"kraken", "binance"} : \E q \in QuotesOf(ex) : ProcessTickCall(ex, q)
    \/ \E ex \in Exchanges : ProcessTickLock(ex)
    \/ \E ex \in Exchanges : ProcessTickStore(ex)
    \/ StartStop
    \/ TickerFire
    \/ CheckArbitrageRLock
    \/ CheckDirection1
    \/ CheckDirection2
    \/ Advance
    \/ CheckArbitrageReturn

DelaySpec == Init /\ [][DelayNext]_vars

\* ------------------------------------------------------------------------
\* main: the shutdown sequence
\* ------------------------------------------------------------------------

\* context.WithTimeout(context.Background(), 5*time.Second)
ShutdownTimeout == 5

\* A final select without a default case: it blocks until shutdownCtx is done.
FinalSelectBlocking(sinceCreated) == "Shutdown timeout reached, forcing exit"

\* select { case <-shutdownCtx.Done(): Warn(...) default: Info(...) }, given
\* the seconds gone by since shutdownCtx was created: the default case is
\* taken unless the context is already done.
FinalSelect(sinceCreated) ==
    IF sinceCreated >= ShutdownTimeout
    THEN "Shutdown timeout reached, forcing exit"
    ELSE "Graceful shutdown completed"

\* <-sigChan returns: SIGINT or SIGTERM has arrived.
Signal ==
    /\ mainpc = "serving"
    /\ mainpc' = "signalled"
    /\ UNCHANGED shutdownLog
    /\ UNCHANGED <<slept, stamp>>
    /\ UNCHANGED <<mode, latestPrices, priceChan, ctxDone, priceMutex, lastSent, lastProc>>
    /\ UNCHANGED <<engineVars, histVars, writerVars, clientVars, repoVars>>
    /\ UNCHANGED <<elapsed, tickerC, prevPass, tickLog, slept, stamp>>

\* main calls cancel().
MainCancel ==
    /\ mainpc = "signalled"
    /\ CancelStep
    /\ mainpc' = "cancelled"
    /\ UNCHANGED shutdownLog

\* main creates shutdownCtx and goes straight on to the final select, no
\* blocking call in between; then it returns and the deferred cancels run.
\* The return of main ends the process.
MainExit ==
    /\ mainpc = "cancelled"
    /\ shutdownLog' = FinalSelect(0)
    /\ mainpc' = "exited"
    /\ UNCHANGED <<slept, stamp>>
    /\ UNCHANGED <<mode, latestPrices, priceChan, ctxDone, priceMutex, lastSent, lastProc>>
    /\ UNCHANGED <<engineVars, histVars, writerVars, clientVars, repoVars>>
    /\ UNCHANGED <<elapsed, tickerC, prevPass, tickLog, slept, stamp>>

\* A step of the engine goroutine or of a client; goroutines run only as
\* long as the process does.
GoroutineStep ==
    /\ mainpc # "exited"
    /\ \/ \E ex \in {"kraken", "binance"} : \E q \in QuotesOf(ex) : ClientSend(ex, q)
       \/ EngineStop
       \/ EngineReceive
       \/ \E err \in BOOLEAN : LogPriceTickReturn(err)
       \/ \E ex \in Exchanges : RangeNext(ex)
       \/ ProcessTickReturn
       \/ Check
       \/ SleepDone
       \/ \E err \in BOOLEAN : LogTradeReturn(err)
       \/ PersistenceWait

\* main with the event-driven engine, from the wait for the signal on.
MainInit == Init /\ mode = "event"

MainNext ==
    \/ Signal
    \/ MainCancel
    \/ MainExit
    \/ GoroutineStep

MainSpec == MainInit /\ [][MainNext]_vars

\* The event-driven engine with every LogPriceTick call put on record when
\* it returns.
ProcessTickInit == Init /\ mode = "event"

ProcessTickNext ==
    \/ Cancel
    \/ \E ex \in Exchanges : \E q \in QuotesOf(ex) : ClientSend(ex, q)
    \/ EngineStop
    \/ EngineReceive
    \/ \E err \in BOOLEAN : LogPriceTickReturnLogged(err)
    \/ \E ex \in Exchanges : RangeNext(ex)
    \/ ProcessTickReturnLogged
    \/ Check
    \/ SleepDone
    \/ \E err \in BOOLEAN : LogTradeReturn(err)
    \/ PersistenceWait

ProcessTickSpec == ProcessTickInit /\ [][ProcessTickNext]_vars

\* The cost computation called on its own, as a unit test calls it: selling
\* on binance what was bought on one of three sources (two of them, coinbase
\* and bitstamp, have no configured fee), at any of a few prices, while the
\* store is being written.
MaxCalls == 2
CostCandidates ==
    { Candidate(b, s, bp, sp) :
        b \in {"kraken", "coinbase", "bitstamp"},
        s \in {"binance"},
        bp \in {4995, 5038}, sp \in {5038, 6000} }

CostInit ==
    /\ mode = "poll"
    /\ latestPrices = [ex \in Exchanges |-> Nil]
    /\ priceChan = <<>>
    /\ ctxDone = FALSE
    /\ pc = "caller"
    /\ tick = Nil
    /\ toVisit = {}
    /\ exchanges = <<>>
    /\ i = 0
    /\ j = 0
    /\ ret = None
    /\ cand = Nil
    /\ trade = Nil
    /\ priceMutex = [writer |-> None, readers |-> 0]
    /\ wpc = [ex \in Exchanges |-> "idle"]
    /\ wtick = [ex \in Exchanges |-> Nil]
    /\ lastSent = [ex \in Exchanges |-> Nil]
    /\ lastProc = [ex \in Exchanges |-> Nil]
    /\ passEvals = {}
    /\ passLogged = EmptyBag
    /\ passErrs = FALSE
    /\ client = None
    /\ cpc = "loop"
    /\ backoff = 1
    /\ conn = "none"
    /\ ctick = Nil
    /\ cmsg = Nil
    /\ cret = None
    /\ elapsed = 0
    /\ simulatedTrades = <<>>
    /\ priceTicks = <<>>
    /\ repoCall = Nil
    /\ repoCalls = 0
    /\ tickerC = 0
    /\ prevPass = Nil
    /\ tickLog = <<>>
    /\ mainpc = "serving"
    /\ shutdownLog = None
    /\ slept = 0
    /\ stamp = -1

\* e.evaluateAndExecute(ctx, buyExchange, sellExchange, buyPrice, sellPrice)
\* called directly; the evaluations made so far are kept.
CallCost(c) ==
    /\ pc = "caller"
    /\ c.buyExchange # c.sellExchange
    /\ Cardinality(passEvals) < MaxCalls
    /\ BagCardinality(passLogged) < MaxCalls
    /\ Invoke(c, "caller")
    /\ UNCHANGED clientVars
    /\ UNCHANGED elapsed
    /\ UNCHANGED repoVars
    /\ UNCHANGED tickerC
    /\ UNCHANGED prevPass
    /\ UNCHANGED tickLog
    /\ UNCHANGED <<mainpc, shutdownLog>>
    /\ UNCHANGED <<slept, stamp>>
    /\ UNCHANGED <<mode, latestPrices, priceChan, ctxDone, priceMutex, lastSent, lastProc>>
    /\ UNCHANGED <<tick, toVisit, exchanges, i, j, trade>>
    /\ UNCHANGED <<passLogged, passErrs, writerVars>>

CostNext ==
    \/ \E c \in CostCandidates : CallCost(c)
    \/ Check
    \/ SleepDone
    \/ \E err \in BOOLEAN : LogTradeReturn(err)
    \/ \E q \in QuotesOf("kraken") : ProcessTickCall("kraken", q)
    \/ ProcessTickLock("kraken")
    \/ ProcessTickStore("kraken")

CostSpec == CostInit /\ [][CostNext]_vars

\* The repository called directly, as its test does, on a database whose
\* tables exist and are empty.
RepoInit == CostInit

RepoNext ==
    \/ \E t \in RepoTrades, served \in BOOLEAN : LogTrade(t, served)
    \/ \E t \in RepoTicks, served \in BOOLEAN : LogPriceTick(t, served)
    \/ \E served \in BOOLEAN : Migrate(served)

RepoSpec == RepoInit /\ [][RepoNext]_vars

\* The steps of StartStream that do not wait for the peer: everything but a
\* read on an open connection.
ClientOwnStep ==
    \/ StartStreamLoop
    \/ \E ok \in BOOLEAN : DialReturn(ok)
    \/ \E ok \in BOOLEAN : SubscribeReturn(ok)
    \/ BackoffWaitDone
    \/ BackoffWaitCancelled
    \/ PlaceholderSleepDone
    \/ MessageLoopSelect
    \/ (conn = "closed" /\ ReadMessageError)
    \/ SendTick
    \/ SendCancelled

\* The steps of the engine goroutine of main when a single source sends.
ConsumerStep ==
    \/ EngineStop
    \/ EngineReceive
    \/ \E err \in BOOLEAN : LogPriceTickReturn(err)
    \/ PersistenceWait
    \/ \E ex \in Exchanges : RangeNext(ex)
    \/ ProcessTickReturn

ClientNext ==
    \/ Cancel
    \/ StartStreamLoop
    \/ \E ok \in BOOLEAN : DialReturn(ok)
    \/ \E ok \in BOOLEAN : SubscribeReturn(ok)
    \/ BackoffWaitDone
    \/ BackoffWaitCancelled
    \/ PlaceholderSleepDone
    \/ MessageLoopSelect
    \/ ReadMessageError
    \/ ReadMessageSkip
    \/ \E q \in QuotesOf(ExchangeOf(client)) : ReadMessageTick(q)
    \/ SendTick
    \/ SendCancelled
    \/ EngineStop
    \/ EngineReceive
    \/ \E err \in BOOLEAN : LogPriceTickReturn(err)
    \/ PersistenceWait
    \/ \E ex \in Exchanges : RangeNext(ex)
    \/ ProcessTickReturn

ClientSpec == ClientInit /\ [][ClientNext]_vars

\* Every step that does not wait for the peer is eventually taken.
ClientFairSpec ==
    ClientSpec /\ WF_vars(ClientOwnStep) /\ WF_vars(ConsumerStep)

\* ------------------------------------------------------------------------
\* KrakenClient: the messages read from the connection
\* ------------------------------------------------------------------------

\* A message as encoding/json decodes it. json is "object" when the payload
\* unmarshals into a map, "array" when it unmarshals into a slice and
\* "invalid" otherwise; event is the "event" member of an object; len is the
\* length of an array and dataIsObject whether its element 1 is an object;
\* b and a are the "b" and "a" members of that object (hasB, hasA: the
\* member is an array), each a sequence of elements that are a JSON string
\* or a JSON number, given by their text.
Message(json, event, len, dataIsObject, hasB, b, hasA, a) ==
    [json |-> json, event |-> event, len |-> len, dataIsObject |-> dataIsObject,
     hasB |-> hasB, b |-> b, hasA |-> hasA, a |-> a]

JSONString(text) == [type |-> "string", text |-> text]
JSONNumber(text) == [type |-> "number", text |-> text]

\* [channelID, {"b": [bid, ...], "a": [ask, ...]}, ...]
TickerArray(b, a) == Message("array", None, 4, TRUE, TRUE, b, TRUE, a)

\* The messages the connection delivers.
KrakenMessages ==
    { Message("object", "subscriptionStatus", 0, FALSE, FALSE, <<>>, FALSE, <<>>),
      Message("object", "heartbeat", 0, FALSE, FALSE, <<>>, FALSE, <<>>),
      Message("invalid", None, 0, FALSE, FALSE, <<>>, FALSE, <<>>),
      Message("array", None, 1, FALSE, FALSE, <<>>, FALSE, <<>>),
      Message("array", None, 4, FALSE, FALSE, <<>>, FALSE, <<>>),
      Message("array", None, 4, TRUE, FALSE, <<>>, TRUE, <<JSONString("4995")>>),
      Message("array", None, 4, TRUE, TRUE, <<JSONString("4995")>>, FALSE, <<>>),
      TickerArray(<<>>, <<JSONString("4995")>>),
      TickerArray(<<JSONString("4995")>>, <<>>),
      TickerArray(<<JSONString("abc")>>, <<JSONString("4995")>>),
      TickerArray(<<JSONString("4995")>>, <<JSONString("")>>),
      TickerArray(<<JSONNumber("4995")>>, <<JSONString("4995")>>),
      TickerArray(<<JSONString("4995")>>, <<JSONNumber("4995")>>) }
    \cup { TickerArray(<<JSONString(b), JSONNumber("0"), JSONString("1")>>,
                       <<JSONString(a), JSONNumber("0"), JSONString("1")>>) :
             b \in {"4995", "6000"}, a \in {"4995"} }

IsDigit(ch) == ch \in {"0", "1", "2", "3", "4", "5", "6", "7", "8", "9"}

DigitValue(ch) ==
    CASE ch = "0" -> 0 [] ch = "1" -> 1 [] ch = "2" -> 2 [] ch = "3" -> 3
      [] ch = "4" -> 4 [] ch = "5" -> 5 [] ch = "6" -> 6 [] ch = "7" -> 7
      [] ch = "8" -> 8 [] ch = "9" -> 9

RECURSIVE DecimalValue(_, _)
DecimalValue(str, n) ==
    IF n = 0 THEN 0
    ELSE 10 * DecimalValue(str, n - 1) + DigitValue(SubSeq(str, n, n))

\* strconv.ParseFloat(str, 64) on the texts the messages carry: a string of
\* decimal digits is its value, any other text is a syntax error.
ParseFloat(str) ==
    IF Len(str) > 0 /\ \A n \in 1..Len(str) : IsDigit(SubSeq(str, n, n))
    THEN [err |-> FALSE, val |-> DecimalValue(str, Len(str))]
    ELSE [err |-> TRUE, val |-> 0]

\* bidStr[0].(string): the single-value form of the type assertion, which
\* panics when the element is not a string.
AsString(el) == IF el.type = "string" THEN "ok" ELSE "panic"

\* What the message loop does with a message it has read: "skip" (continue
\* with the next message), "panic", or "tick" with the parsed bid and ask.
KrakenHandle(m) ==
    LET skip  == [out |-> "skip", bid |-> 0, ask |-> 0]
        panic == [out |-> "panic", bid |-> 0, ask |-> 0]
    IN  IF m.json = "object" THEN skip
        ELSE IF m.json # "array" THEN skip
        ELSE IF ~(m.len >= 2) THEN skip
        ELSE IF ~m.dataIsObject THEN skip
        ELSE IF ~(m.hasB /\ Len(m.b) > 0) THEN skip
        ELSE IF ~(m.hasA /\ Len(m.a) > 0) THEN skip
        ELSE IF AsString(m.b[1]) = "panic" THEN panic
        ELSE IF m.b[1].type # "string" \/ ParseFloat(m.b[1].text).err THEN skip
        ELSE IF AsString(m.a[1]) = "panic" THEN panic
        ELSE IF m.a[1].type # "string" \/ ParseFloat(m.a[1].text).err THEN skip
        ELSE [out |-> "tick", bid |-> ParseFloat(m.b[1].text).val,
              ask |-> ParseFloat(m.a[1].text).val]

\* c.ReadMessage() of the KrakenClient returns message m, which is handled
\* up to the continue, the send select or the panic. An unrecovered panic
\* in the client goroutine ends the process, the engine goroutine with it.
KrakenMessage(m) ==
    /\ client = "kraken"
    /\ cpc = "read"
    /\ conn = "open"
    /\ cmsg' = m
    /\ LET h == KrakenHandle(m)
       IN  /\ cpc' = CASE h.out = "skip" -> "msgSelect"
                       [] h.out = "tick" -> "send"
                       [] h.out = "panic" -> "panicked"
           /\ ctick' = IF h.out = "tick"
                       THEN PriceTick("kraken", [bid |-> h.bid, ask |-> h.ask])
                       ELSE ctick
           /\ pc' = IF h.out = "panic" THEN "crashed" ELSE pc
    /\ UNCHANGED <<client, backoff, conn, cret>>
    /\ UNCHANGED elapsed
    /\ UNCHANGED repoVars
    /\ UNCHANGED tickerC
    /\ UNCHANGED prevPass
    /\ UNCHANGED tickLog
    /\ UNCHANGED <<mainpc, shutdownLog>>
    /\ UNCHANGED <<slept, stamp>>
    /\ UNCHANGED <<mode, latestPrices, priceChan, ctxDone, priceMutex, lastSent, lastProc>>
    /\ UNCHANGED <<tick, toVisit, exchanges, i, j, ret, cand, trade>>
    /\ UNCHANGED <<histVars, writerVars>>

\* main with the KrakenClient reading the messages above.
KrakenInit == ClientInit /\ client = "kraken"

KrakenNext ==
    \/ Cancel
    \/ StartStreamLoop
    \/ \E ok \in BOOLEAN : DialReturn(ok)
    \/ \E ok \in BOOLEAN : SubscribeReturn(ok)
    \/ BackoffWaitDone
    \/ BackoffWaitCancelled
    \/ MessageLoopSelect
    \/ ReadMessageError
    \/ \E m \in KrakenMessages : KrakenMessage(m)
    \/ SendTick
    \/ SendCancelled
    \/ EngineStop
    \/ EngineReceive
    \/ \E err \in BOOLEAN : LogPriceTickReturn(err)
    \/ PersistenceWait
    \/ \E ex \in Exchanges : RangeNext(ex)
    \/ ProcessTickReturn

KrakenSpec == KrakenInit /\ [][KrakenNext]_vars

\* ------------------------------------------------------------------------
\* Properties
\* ------------------------------------------------------------------------

\* A detection pass has finished its loops and is about to return.
PassEnd ==
    \/ mode = "event" /\ pc = "range" /\ toVisit = {}
    \/ mode = "poll" /\ pc = "runlock"

\* A trade for candidate c has been handed to LogTrade in this pass.
LoggedFor(c) ==
    \E t \in BagToSet(passLogged) :
        /\ t.BuyExchange = c.buyExchange
        /\ t.SellExchange = c.sellExchange
        /\ t.BuyPrice = c.buyPrice
        /\ t.SellPrice = c.sellPrice

\* The evaluation e has not reached its LogTrade decision point yet: the cost
\* computation has not run, or the delay before LogTrade is running.
Pending(e) == e.net = NotComputed \/ (e.c = cand /\ pc = "sleep")

\* C1: for every candidate a pass evaluates, LogTrade is called for it if and
\* only if its computed net profit is strictly greater than zero; the delay
\* and the LogTrade call are only ever reached with a positive net profit.
C1_LogTradeIffProfitable ==
    /\ \A e \in passEvals :
          ~Pending(e) => (LoggedFor(e.c) <=> FGreater(e.net, F(0)))
    /\ pc \in {"sleep", "logTrade"} =>
          \E e \in passEvals : e.c = cand /\ FGreater(e.net, F(0))
    /\ \A t \in BagToSet(passLogged) :
          \E e \in passEvals : /\ e.c.buyExchange = t.BuyExchange
                               /\ e.c.sellExchange = t.SellExchange
                               /\ FGreater(e.net, F(0))

\* A pass has ended in which a candidate with net profit exactly zero was
\* evaluated and not logged, one with a loss was evaluated and not logged,
\* and a profitable one was logged.
C1_Witness ==
    /\ PassEnd
    /\ \E e \in passEvals : e.net = F(0) /\ ~LoggedFor(e.c)
    /\ \E e \in passEvals : FLess(e.net, F(0)) /\ ~LoggedFor(e.c)
    /\ \E e \in passEvals : LoggedFor(e.c)

\* The reference cost model, in closed form over the six inputs.
RefVolume(buyPrice, notional) == Fin(notional, buyPrice)
RefGross(buyPrice, sellPrice, notional) ==
    Fin((sellPrice - buyPrice) * notional, buyPrice)
RefBuyLegFee(buyFeePct, notional) ==
    Fin(notional * buyFeePct.n, 100 * buyFeePct.d)
RefSellLegFee(buyPrice, sellPrice, sellFeePct, notional) ==
    Fin(sellPrice * notional * sellFeePct.n, buyPrice * 100 * sellFeePct.d)
RefTotalFees(buyPrice, sellPrice, buyFeePct, sellFeePct, notional, networkFee) ==
    FAdd(FAdd(RefBuyLegFee(buyFeePct, notional),
              RefSellLegFee(buyPrice, sellPrice, sellFeePct, notional)),
         F(networkFee))
RefNet(buyPrice, sellPrice, buyFeePct, sellFeePct, notional, networkFee) ==
    FSub(RefGross(buyPrice, sellPrice, notional),
         RefTotalFees(buyPrice, sellPrice, buyFeePct, sellFeePct, notional, networkFee))

\* The figures the engine computes for candidate c equal the reference.
MatchesReference(c) ==
    LET calc == Evaluate(c.buyExchange, c.sellExchange, c.buyPrice, c.sellPrice)
        fb   == TakerFeePercent(c.buyExchange)
        fs   == TakerFeePercent(c.sellExchange)
        N    == SimulatedTradeVolumeEUR
        W    == NetworkWithdrawalFeeEUR
    IN  /\ calc.volumeInCrypto = RefVolume(c.buyPrice, N)
        /\ calc.grossProfitEUR = RefGross(c.buyPrice, c.sellPrice, N)
        /\ calc.buyLegFee = RefBuyLegFee(fb, N)
        /\ calc.sellLegFee = RefSellLegFee(c.buyPrice, c.sellPrice, fs, N)
        /\ calc.totalFeesEUR = RefTotalFees(c.buyPrice, c.sellPrice, fb, fs, N, W)
        /\ calc.netProfitEUR = RefNet(c.buyPrice, c.sellPrice, fb, fs, N, W)

\* The figures recorded in trade t equal the reference.
RecordMatchesReference(t) ==
    LET fb == TakerFeePercent(t.BuyExchange)
        fs == TakerFeePercent(t.SellExchange)
        N  == SimulatedTradeVolumeEUR
        W  == NetworkWithdrawalFeeEUR
    IN  /\ t.GrossProfitEUR = RefGross(t.BuyPrice, t.SellPrice, N)
        /\ t.TotalFeesEUR = RefTotalFees(t.BuyPrice, t.SellPrice, fb, fs, N, W)
        /\ t.NetProfitEUR = RefNet(t.BuyPrice, t.SellPrice, fb, fs, N, W)

\* C2: for every candidate with buyPrice > 0, the figures the engine computes
\* (volume, gross, leg fees, total fees, net) and the figures it records in the
\* trade equal the reference cost model, with the buy source's fee on the buy
\* leg and the sell source's fee on the sell leg.
C2_FiguresEqualReference ==
    /\ (cand # Nil /\ cand.buyPrice > 0) =>
          /\ MatchesReference(cand)
          /\ \A e \in passEvals :
                (e.c = cand /\ e.net # NotComputed) =>
                    e.net = RefNet(cand.buyPrice, cand.sellPrice,
                                   TakerFeePercent(cand.buyExchange),
                                   TakerFeePercent(cand.sellExchange),
                                   SimulatedTradeVolumeEUR, NetworkWithdrawalFeeEUR)
    /\ (trade # Nil /\ trade.BuyPrice > 0) => RecordMatchesReference(trade)

\* A trade bought on kraken (fee 0.26%) and sold on binance (fee 0.1%) is
\* being logged, after a candidate with a loss was evaluated in the same pass.
C2_Witness ==
    /\ pc = "logTrade"
    /\ trade.BuyExchange = "kraken"
    /\ trade.SellExchange = "binance"
    /\ trade.BuyPrice > 0
    /\ \E e \in passEvals : e.c.buyPrice > 0 /\ FLess(e.net, F(0))

\* C3: ingest never blocks on detection or persistence. No ProcessTick call
\* waits for LogPriceTick before its store update; a ProcessTick call waiting
\* for the store's lock can take it whatever the detection pass is doing; and
\* while an opportunity is delayed or persisted the engine goroutine of main
\* can still take a buffered tick from the price channel.
C3_IngestNeverBlocks ==
    /\ ~(mode = "event" /\ pc = "logPriceTick")
    /\ \A ex \in Exchanges :
          (mode = "poll" /\ wpc[ex] = "lock" /\ priceMutex.writer = None) =>
              ENABLED ProcessTickLock(ex)
    /\ (mode = "event" /\ pc \in {"sleep", "logTrade"} /\ priceChan # <<>>) =>
          ENABLED EngineReceive

\* C4: in the polling engine no lock on the quote store is held while an
\* opportunity is in its delay or in the LogTrade call that follows, so a
\* ProcessTick waiting for the write lock can take it.
C4_NoLockHeldDuringDelay ==
    (mode = "poll" /\ pc \in {"sleep", "logTrade"}) =>
        /\ priceMutex.readers = 0
        /\ \A ex \in Exchanges :
              (wpc[ex] = "lock" /\ priceMutex.writer = None) =>
                  ENABLED ProcessTickLock(ex)

\* Every submitted tick has been processed: the channel is drained and no
\* ProcessTick call is under way.
AllProcessed ==
    \/ mode = "event" /\ priceChan = <<>> /\ pc # "logPriceTick"
    \/ mode = "poll" /\ \A ex \in Exchanges : wpc[ex] = "idle"

\* C5: once all submitted ticks have been processed, the store has an entry
\* exactly for the sources that submitted, each entry is the last tick its
\* source submitted, and it carries that source's name.
C5_NoLostUpdate ==
    AllProcessed =>
        \A ex \in Exchanges :
            /\ latestPrices[ex] = lastSent[ex]
            /\ latestPrices[ex] # Nil => latestPrices[ex].Exchange = ex

\* All three sources have submitted through the fan-in channel, all ticks
\* are processed, and the channel was used by a source whose stored quote is
\* not the first one of its quote set.
C5_Witness ==
    /\ mode = "event"
    /\ AllProcessed
    /\ \A ex \in Exchanges : latestPrices[ex] # Nil
    /\ latestPrices["kraken"].Bid = 6000
    /\ latestPrices["coinbase"].Ask = 0

\* A ProcessTick call for ex has started and has not yet updated the store.
InProgress(ex) ==
    \/ mode = "event" /\ pc = "logPriceTick" /\ tick.Exchange = ex
    \/ mode = "poll" /\ wpc[ex] # "idle"

\* C6: the store holds one quote per source (it is a map keyed by source), and
\* for every source with no ProcessTick call under way that quote is the
\* argument of the source's most recent ProcessTick call.
C6_LastWriteWins ==
    \A ex \in Exchanges :
        ~InProgress(ex) => latestPrices[ex] = lastProc[ex]

\* One source's tick has been processed and stored while another source,
\* which already has an entry, is about to overwrite it with a different tick.
C6_Witness ==
    /\ mode = "poll"
    /\ \E a, b \in Exchanges :
          /\ a # b
          /\ wpc[a] = "idle"
          /\ latestPrices[a] # Nil
          /\ latestPrices[a] = lastProc[a]
          /\ wpc[b] = "locked"
          /\ latestPrices[b] # Nil
          /\ latestPrices[b] # wtick[b]

\* The direction buy-on-a / sell-on-b, priced from the store.
Direction(a, b) == Candidate(a, b, latestPrices[a].Ask, latestPrices[b].Bid)

\* a's ask is strictly below b's bid, and the direction is worth logging.
IsCandidate(a, b) == latestPrices[a].Ask < latestPrices[b].Bid
ProfitableDirection(a, b) ==
    /\ IsCandidate(a, b)
    /\ FGreater(Evaluate(a, b, latestPrices[a].Ask, latestPrices[b].Bid).netProfitEUR,
                F(0))

\* The unordered pairs of sources a pass is about: every pair of the store in
\* the polling engine, every pair with the new tick's source in the
\* event-driven one.
PairOfPass(a, b) ==
    /\ a \in Keys
    /\ b \in Keys
    /\ a # b
    /\ mode = "event" => (a = tick.Exchange \/ b = tick.Exchange)

\* C7: when a pass ends over two sources that are crossed in both directions,
\* each direction has been logged iff it is profitable on its own.
C7_BothDirectionsIndependent ==
    PassEnd =>
        \A a, b \in Exchanges :
            (PairOfPass(a, b) /\ IsCandidate(a, b) /\ IsCandidate(b, a)) =>
                /\ LoggedFor(Direction(a, b)) <=> ProfitableDirection(a, b)
                /\ LoggedFor(Direction(b, a)) <=> ProfitableDirection(b, a)

\* C8: when a pass ends, the trades handed to LogTrade are exactly the
\* directed pairs of the store whose candidate has a strictly positive net
\* profit, each handed over once.
C8_AllProfitablePairsOnce ==
    PassEnd =>
        /\ \A a, b \in Keys :
              (a # b /\ ProfitableDirection(a, b)) => LoggedFor(Direction(a, b))
        /\ \A t \in BagToSet(passLogged) :
              /\ CopiesIn(t, passLogged) = 1
              /\ t.BuyExchange # t.SellExchange
              /\ ProfitableDirection(t.BuyExchange, t.SellExchange)
              /\ t.BuyPrice = latestPrices[t.BuyExchange].Ask
              /\ t.SellPrice = latestPrices[t.SellExchange].Bid

\* C9: during a pass, every cost computation invoked is for a direction whose
\* ask is strictly below the bid in the store, with those prices; a direction
\* whose ask is greater than or equal to the bid has no cost computation and
\* no LogTrade call.
C9_NoCandidateUnlessAskBelowBid ==
    /\ \A e \in passEvals :
          /\ e.c.buyPrice < e.c.sellPrice
          /\ e.c.buyExchange \in Keys
          /\ e.c.sellExchange \in Keys
          /\ e.c = Direction(e.c.buyExchange, e.c.sellExchange)
    /\ \A t \in BagToSet(passLogged) :
          /\ t.BuyPrice < t.SellPrice
          /\ latestPrices[t.BuyExchange].Ask < latestPrices[t.SellExchange].Bid

\* A pass has ended over a store in which one source's ask equals another
\* source's bid: that direction was not evaluated, another one was.
C9_Witness ==
    /\ PassEnd
    /\ passEvals # {}
    /\ \E a, b \in Keys :
          /\ a # b
          /\ PairOfPass(a, b)
          /\ latestPrices[a].Ask = latestPrices[b].Bid
          /\ \A e \in passEvals : ~(e.c.buyExchange = a /\ e.c.sellExchange = b)

\* The cost computations a pass of the running engine variant makes over the
\* store as it is.
ExpectedEvals ==
    IF mode = "event"
    THEN UNION { EventCandidates(tick, latestPrices[ex]) :
                    ex \in Keys \ {tick.Exchange} }
    ELSE { Direction(p[1], p[2]) :
             p \in { q \in Keys \X Keys : q[1] # q[2] /\ IsCandidate(q[1], q[2]) } }

\* C10: a LogTrade error does not stop detection. The engine goroutine stops
\* only on cancellation, and a pass in which LogTrade returned an error still
\* ends having made every cost computation of the pass and having handed
\* every profitable one to LogTrade.
C10_LogTradeErrorDoesNotStop ==
    /\ pc = "stopped" => ctxDone
    /\ (PassEnd /\ passErrs) =>
          /\ \A c \in ExpectedEvals : \E e \in passEvals : e.c = c
          /\ \A e \in passEvals : FGreater(e.net, F(0)) => LoggedFor(e.c)

\* A LogTrade call is under way in a pass in which an earlier LogTrade call
\* returned an error.
C10_Witness ==
    /\ passErrs
    /\ pc = "logTrade"
    /\ Cardinality(BagToSet(passLogged)) >= 2

\* C11: an opportunity is handed to LogTrade at most once. No trade is handed
\* over twice in a pass, and whatever LogTrade returns, the engine's next step
\* returns to the caller of the cost computation and drops the opportunity:
\* it neither calls LogTrade again nor keeps the trade for a later attempt.
C11_NoRetryAfterLogTrade ==
    /\ [](\A t \in BagToSet(passLogged) : CopiesIn(t, passLogged) = 1)
    /\ [][(pc = "logTrade" /\ <<pc, trade, cand, ret, passErrs>>' # <<pc, trade, cand, ret, passErrs>>)
              => (pc' = ret /\ pc' # "logTrade" /\ trade' = Nil /\ cand' = Nil)]_vars

\* A pass has ended in which a LogTrade call returned an error, and the
\* opportunity it was for has been handed over exactly once.
C11_Witness ==
    /\ PassEnd
    /\ passErrs
    /\ passLogged # EmptyBag
    /\ \A t \in BagToSet(passLogged) : CopiesIn(t, passLogged) = 1
    /\ trade = Nil

\* C12: no LogTrade call starts once the context has been cancelled.
C12_NoLogTradeAfterCancel ==
    [][(pc' = "logTrade" /\ pc # "logTrade") => ~ctxDone]_vars

\* C13: a delay that is in flight when the context is cancelled is abandoned:
\* it cannot run to completion and go on to the LogTrade call.
C13_DelayAbandonedOnCancel ==
    [][(ctxDone /\ pc = "sleep") => pc' \in {"sleep", ret}]_vars

\* C14: after its connection has failed and been closed, a client is no
\* longer in its message loop (it is on its way to a new dial).
C14_FailedConnectionLeavesMessageLoop ==
    (client # None /\ ~ctxDone /\ conn = "closed") => cpc \notin {"msgSelect", "read"}

\* C15: the backoff starts at 1 second and is always one of 1, 2, 4, 8, 16;
\* every wait after a failed dial or a failed subscription send (and every
\* sleep of the placeholder) lasts the current backoff and leaves it doubled,
\* capped at 16; the backoff changes in no other way than by that doubling
\* and by the reset to 1 on a successful dial.
C15_BackoffExponentialCapped ==
    /\ backoff = 1
    /\ [](backoff \in {1, 2, 4, 8, 16})
    /\ [][(cpc \in {"backoffWait", "placeholderSleep"} /\ cpc' = "loop")
              => backoff' = (IF backoff >= 16 THEN 16 ELSE 2 * backoff)]_vars
    /\ [][backoff' # backoff
              => \/ cpc \in {"backoffWait", "placeholderSleep"} /\ cpc' = "loop"
                 \/ cpc = "dial" /\ conn' = "open" /\ backoff' = 1]_vars

\* A client is waiting out a backoff of 16 seconds, the ceiling, after a
\* failed attempt.
C15_Witness ==
    /\ client \in {"kraken", "binance"}
    /\ cpc = "backoffWait"
    /\ backoff = 16
    /\ ~ctxDone

\* C16: once the context is cancelled, StartStream eventually returns, with
\* no connection left open.
C16_ClientReturnsAfterCancel ==
    ctxDone ~> (cpc = "returned" /\ conn # "open")

\* The engine is inside a persistence call.
InPersistenceCall == pc \in {"logTrade", "logPriceTick"}

\* C17: every persistence call is bounded by its own timeout. No LogTrade
\* call lasts longer than 5 seconds and no LogPriceTick call longer than 2;
\* a call that has reached its deadline cannot wait any longer, and the
\* engine's next step is its return with an error, after which the pass goes
\* on where the call was made (the store update and the loop after
\* LogPriceTick, the caller of the cost computation after LogTrade).
C17_PersistenceCallBounded ==
    /\ [](InPersistenceCall => elapsed <= Timeout(pc))
    /\ [](~InPersistenceCall => elapsed = 0)
    /\ [][(InPersistenceCall /\ elapsed = Timeout(pc)
             /\ <<pc, elapsed, passErrs, trade>>' # <<pc, elapsed, passErrs, trade>>)
              => /\ elapsed' = 0
                 /\ pc' = (IF pc = "logTrade" THEN ret ELSE "range")
                 /\ pc = "logTrade" => passErrs']_vars

\* A LogTrade call has been hung for its whole timeout, in a pass in which an
\* earlier LogTrade call ended with an error.
C17_Witness ==
    /\ pc = "logTrade"
    /\ elapsed = LogTradeTimeout
    /\ passErrs

\* C18: the cost computation is never invoked with a buy price that is zero
\* or negative.
C18_BuyPricePositive ==
    /\ \A e \in passEvals : e.c.buyPrice > 0
    /\ cand # Nil => cand.buyPrice > 0

\* The latest tick submitted by source ex differs from the store's entry.
NewerTickWaiting(ex) == lastSent[ex] # Nil /\ lastSent[ex] # latestPrices[ex]

\* C19: the trade handed to LogTrade carries the prices the cost computation
\* was invoked with, and those are the ask of the buy source and the bid of
\* the sell source that were in the store when the direction was detected.
C19_TradePricedAtDetection ==
    trade # Nil =>
        /\ trade.BuyExchange = cand.buyExchange
        /\ trade.SellExchange = cand.sellExchange
        /\ trade.BuyPrice = cand.buyPrice
        /\ trade.SellPrice = cand.sellPrice
        /\ \E e \in passEvals : e.c = cand
        /\ trade.BuyPrice = latestPrices[trade.BuyExchange].Ask
        /\ trade.SellPrice = latestPrices[trade.SellExchange].Bid

\* A trade is being logged while both its sources have submitted newer ticks,
\* with a different ask for the buy source and a different bid for the sell
\* source, that arrived after the detection.
C19_Witness ==
    /\ pc = "logTrade"
    /\ trade # Nil
    /\ NewerTickWaiting(trade.BuyExchange)
    /\ NewerTickWaiting(trade.SellExchange)
    /\ lastSent[trade.BuyExchange].Ask # trade.BuyPrice
    /\ lastSent[trade.SellExchange].Bid # trade.SellPrice

\* The store holds kraken and binance, buying on a and selling on b at 61000
\* is a candidate with a buy price of 60000 or 60050, and the opposite
\* direction is not a candidate.
ExampleStore(a, b) ==
    /\ Keys = {"kraken", "binance"}
    /\ {a, b} = Keys
    /\ latestPrices[a].Ask \in {60000, 60050}
    /\ latestPrices[b].Bid = 61000
    /\ IsCandidate(a, b)
    /\ ~IsCandidate(b, a)

\* C20: with notional 1000, network fee 5, fee 0.26% on the buy source and
\* 0.1% on the sell source, a pass over a two-source store with one candidate
\* direction, buy price 60000 or 60050 and sell price 61000, ends with exactly
\* one LogTrade call: buy source the one with the lower ask, sell source the
\* one with the higher bid, net profit strictly positive, and exactly 8.05
\* when the buy price is 60000.
C20_ExampleLoggedOnce ==
    \A a, b \in {"kraken", "binance"} :
        (PassEnd /\ ExampleStore(a, b) /\ TakerFeePercent(a) = Fin(26, 100)
                 /\ TakerFeePercent(b) = Fin(10, 100)) =>
            /\ BagCardinality(passLogged) = 1
            /\ \A t \in BagToSet(passLogged) :
                  /\ t.BuyExchange = a
                  /\ t.SellExchange = b
                  /\ t.BuyPrice = latestPrices[a].Ask
                  /\ t.SellPrice = 61000
                  /\ latestPrices[a].Ask < latestPrices[b].Ask
                  /\ latestPrices[b].Bid > latestPrices[a].Bid
                  /\ FGreater(t.NetProfitEUR, F(0))
                  /\ t.BuyPrice = 60000 => t.NetProfitEUR = Fin(161, 20)
                  /\ t.VolumeEUR = 1000

\* A pass has ended over kraken asking 60000 and binance bidding 61000, with
\* one trade logged at a net profit of 8.05.
C20_Witness ==
    /\ PassEnd
    /\ ExampleStore("kraken", "binance")
    /\ latestPrices["kraken"].Ask = 60000
    /\ BagCardinality(passLogged) = 1
    /\ \E t \in BagToSet(passLogged) : t.NetProfitEUR = Fin(161, 20)

\* The store holds kraken asking 60001 and binance bidding 60002: a spread
\* of one unit in that direction, none in the other.
ThinSpreadStore ==
    /\ Keys = {"kraken", "binance"}
    /\ latestPrices["kraken"].Ask = 60001
    /\ latestPrices["binance"].Bid = 60002
    /\ IsCandidate("kraken", "binance")
    /\ ~IsCandidate("binance", "kraken")

\* C21: a pass over kraken asking 60001 and binance bidding 60002 (notional
\* 1000, network fee 5, fees 0.26% and 0.1%) evaluates that direction, finds
\* a negative net profit although the spread is positive, and makes no
\* LogTrade call.
C21_ThinSpreadNotLogged ==
    /\ (ThinSpreadStore /\ pc \in {"sleep", "logTrade"}) =>
          ~(cand.buyPrice = 60001 /\ cand.sellPrice = 60002)
    /\ (PassEnd /\ ThinSpreadStore) =>
          /\ passLogged = EmptyBag
          /\ \A e \in passEvals :
                /\ e.c = Candidate("kraken", "binance", 60001, 60002)
                /\ FLess(e.net, F(0))
                /\ FGreater(Evaluate("kraken", "binance", 60001, 60002).grossProfitEUR, F(0))

\* A pass over that store has ended with the direction evaluated.
C21_Witness ==
    /\ PassEnd
    /\ ThinSpreadStore
    /\ passEvals # {}
    /\ passLogged = EmptyBag

\* Two candidates give the cost computation the same six inputs: prices and
\* the fees of their sources (notional and network fee are configuration).
SameInputs(c1, c2) ==
    /\ c1.buyPrice = c2.buyPrice
    /\ c1.sellPrice = c2.sellPrice
    /\ TakerFeePercent(c1.buyExchange) = TakerFeePercent(c2.buyExchange)
    /\ TakerFeePercent(c1.sellExchange) = TakerFeePercent(c2.sellExchange)

\* The trade t was built for candidate c.
TradeOf(t, c) ==
    /\ t.BuyExchange = c.buyExchange
    /\ t.SellExchange = c.sellExchange
    /\ t.BuyPrice = c.buyPrice
    /\ t.SellPrice = c.sellPrice

\* C22: evaluations with the same six inputs have the same net profit and
\* the same decision, and the trades they log carry the same gross profit,
\* total fees and net profit, whichever sources are involved, whatever was
\* evaluated before and whatever the store holds.
C22_CostDeterministic ==
    /\ \A e1, e2 \in passEvals :
          (SameInputs(e1.c, e2.c) /\ e1.net # NotComputed /\ e2.net # NotComputed) =>
              /\ e1.net = e2.net
              /\ (~Pending(e1) /\ ~Pending(e2)) => (LoggedFor(e1.c) <=> LoggedFor(e2.c))
    /\ \A t1, t2 \in BagToSet(passLogged) :
          (\E e1, e2 \in passEvals :
              TradeOf(t1, e1.c) /\ TradeOf(t2, e2.c) /\ SameInputs(e1.c, e2.c)) =>
              /\ t1.GrossProfitEUR = t2.GrossProfitEUR
              /\ t1.TotalFeesEUR = t2.TotalFeesEUR
              /\ t1.NetProfitEUR = t2.NetProfitEUR

\* Two evaluations with the same inputs and different sources have both been
\* made and logged, and the store was written meanwhile.
C22_Witness ==
    /\ pc = "caller"
    /\ latestPrices["kraken"] # Nil
    /\ BagCardinality(passLogged) = 2
    /\ \E e1, e2 \in passEvals :
          /\ e1.c # e2.c
          /\ e1.c.buyExchange # e2.c.buyExchange
          /\ SameInputs(e1.c, e2.c)
          /\ LoggedFor(e1.c)
          /\ LoggedFor(e2.c)

\* C23: no step removes an entry from the store, and a pass that ends has
\* compared every pair of its sources, however old their quotes: a pair with
\* a candidate direction has had a cost computation.
C23_StoreNeverShrinks ==
    /\ [][\A ex \in Exchanges : latestPrices[ex] # Nil => latestPrices'[ex] # Nil]_vars
    /\ [](PassEnd =>
            \A a, b \in Exchanges :
                (PairOfPass(a, b) /\ (IsCandidate(a, b) \/ IsCandidate(b, a))) =>
                    \E e \in passEvals :
                        {e.c.buyExchange, e.c.sellExchange} = {a, b})

\* A pass started by one source's tick has ended having evaluated a
\* direction against each of the two other sources, whose quotes were
\* stored earlier and have not been replaced since.
C23_Witness ==
    /\ mode = "event"
    /\ PassEnd
    /\ Keys = Exchanges
    /\ \A b \in Exchanges \ {tick.Exchange} :
          /\ lastSent[b] = latestPrices[b]
          /\ \E e \in passEvals : b \in {e.c.buyExchange, e.c.sellExchange}

\* C24: the price channel never holds more ticks than its capacity; a client
\* that has parsed a tick leaves its send only by putting that tick on the
\* channel or, once the context is cancelled, by returning; and while the
\* channel is full and the context is not cancelled the client stays in its
\* send with the tick.
C24_BoundedQueueBlocksProducer ==
    /\ [](Len(priceChan) <= ChanCap /\ ChanCap <= PriceChanCap)
    /\ [][(cpc = "send" /\ cpc' # "send")
              => \/ priceChan' = Append(priceChan, ctick)
                 \/ ctxDone /\ cpc' = "returned"]_vars
    /\ [][(cpc = "send" /\ Len(priceChan) = ChanCap /\ ~ctxDone)
              => (cpc' = "send" /\ ctick' = ctick)]_vars

\* A client holds a parsed tick while the channel is full, the engine is
\* busy with an earlier tick and the context is not cancelled.
C24_Witness ==
    /\ client # None
    /\ cpc = "send"
    /\ ctick # Nil
    /\ Len(priceChan) = ChanCap
    /\ pc = "logPriceTick"
    /\ ~ctxDone

\* The ticks sent and not yet applied to the store, oldest first: the one
\* ProcessTick is about to store, then the channel.
InFlight ==
    (IF pc = "logPriceTick" THEN <<tick>> ELSE <<>>) \o priceChan

\* C25: in main only the engine goroutine executes ProcessTick; the channel
\* changes only by a send appending a tick at its end or by the engine
\* goroutine, idle in its select, taking the tick at its head; the store
\* changes only by that tick being stored under its source; hence each
\* source's ticks are applied in the order sent, and the newest tick of a
\* source in flight is the last one it sent.
C25_FanInOrder ==
    /\ [](mode = "event" => \A ex \in Exchanges : wpc[ex] = "idle")
    /\ [](mode = "event" =>
            \A k \in 1..Len(InFlight) :
                (\A l \in (k+1)..Len(InFlight) : InFlight[l].Exchange # InFlight[k].Exchange)
                    => InFlight[k] = lastSent[InFlight[k].Exchange])
    /\ [][(mode = "event" /\ priceChan' # priceChan)
              => \/ /\ pc = "select"
                    /\ pc' = "logPriceTick"
                    /\ tick' = Head(priceChan)
                    /\ priceChan' = Tail(priceChan)
                 \/ /\ Len(priceChan') = Len(priceChan) + 1
                    /\ SubSeq(priceChan', 1, Len(priceChan)) = priceChan
                    /\ UNCHANGED <<pc, tick, latestPrices>>]_vars
    /\ [][(mode = "event" /\ latestPrices' # latestPrices)
              => /\ pc = "logPriceTick"
                 /\ latestPrices' = [latestPrices EXCEPT ![tick.Exchange] = tick]]_vars

\* The engine goroutine is applying a source's tick while a different, later
\* tick of the same source and a tick of another source wait in the channel.
C25_Witness ==
    /\ mode = "event"
    /\ pc = "logPriceTick"
    /\ Len(priceChan) = 2
    /\ \E k \in 1..2 : priceChan[k].Exchange = tick.Exchange /\ priceChan[k] # tick
    /\ \E k \in 1..2 : priceChan[k].Exchange # tick.Exchange

\* C26: while the store holds fewer than two sources no cost computation and
\* no LogTrade call is made, and every cost computation and every trade is
\* for two different sources.
C26_NoTradeFromSingleSource ==
    /\ Cardinality(Keys) < 2 =>
          /\ passEvals = {}
          /\ passLogged = EmptyBag
          /\ pc \notin {"check", "sleep", "logTrade"}
    /\ \A e \in passEvals : e.c.buyExchange # e.c.sellExchange
    /\ \A t \in BagToSet(passLogged) : t.BuyExchange # t.SellExchange
    /\ trade # Nil => trade.BuyExchange # trade.SellExchange

\* A pass has ended over a store whose only source quotes an ask below its
\* own bid: nothing was evaluated.
C26_Witness ==
    /\ PassEnd
    /\ Keys = {"kraken"}
    /\ latestPrices["kraken"].Ask < latestPrices["kraken"].Bid
    /\ passEvals = {}

\* C27: in the polling engine a step of ProcessTick changes nothing of the
\* detection path (no cost computation, no delay, no repository call, and
\* LogPriceTick is never called); a detection pass starts only from the
\* select of Start, by the ticker; and the store does not change while a
\* pass reads it.
C27_PollingIngestOnlyStores ==
    /\ [](mode = "poll" => pc # "logPriceTick")
    /\ [][(mode = "poll" /\ wpc' # wpc)
              => UNCHANGED <<pc, ret, cand, trade, exchanges, i, j, elapsed,
                             passEvals, passLogged, passErrs>>]_vars
    /\ [][(mode = "poll" /\ pc' = "rlock" /\ pc # "rlock")
              => (pc = "select" /\ wpc' = wpc /\ latestPrices' = latestPrices)]_vars
    /\ [][(mode = "poll" /\ priceMutex.readers > 0 /\ priceMutex'.readers > 0)
              => latestPrices' = latestPrices]_vars

\* The polling engine is computing the cost of a candidate while a
\* ProcessTick call has stored another source's tick earlier and one more
\* call waits for the lock.
C27_Witness ==
    /\ mode = "poll"
    /\ pc = "check"
    /\ \E ex \in Exchanges : wpc[ex] = "lock" /\ wtick[ex] # latestPrices[ex]

\* C29: in the polling engine the write lock and the read lock of the store
\* are never held together and at most one ProcessTick holds the write lock;
\* every entry of the store is one complete tick of its source; and while a
\* pass holds the read lock every pair it has evaluated carries the quotes
\* that the store, unchanged since the pass began, still holds.
C29_PassReadsOneStoreState ==
    mode = "poll" =>
        /\ ~(priceMutex.writer # None /\ priceMutex.readers > 0)
        /\ \A ex \in Exchanges :
              wpc[ex] = "locked" <=> priceMutex.writer = ex
        /\ \A ex \in Keys :
              \E q \in QuotesOf(ex) : latestPrices[ex] = PriceTick(ex, q)
        /\ priceMutex.readers > 0 =>
              \A e \in passEvals :
                  /\ e.c.buyPrice = latestPrices[e.c.buyExchange].Ask
                  /\ e.c.sellPrice = latestPrices[e.c.sellExchange].Bid

\* A pass that has evaluated a pair still holds the read lock while a
\* ProcessTick call carrying a different tick for one of the pair's sources
\* waits for the write lock.
C29_Witness ==
    /\ mode = "poll"
    /\ priceMutex.readers > 0
    /\ \E e \in passEvals :
          /\ wpc[e.c.buyExchange] = "lock"
          /\ wtick[e.c.buyExchange].Ask # e.c.buyPrice

\* The relations between the fields of one trade record.
TradeRecordOK(t) ==
    /\ t.BuyPrice < t.SellPrice
    /\ FGreater(t.NetProfitEUR, F(0))
    /\ t.NetProfitEUR = FSub(t.GrossProfitEUR, t.TotalFeesEUR)
    /\ ~FLess(t.TotalFeesEUR, F(NetworkWithdrawalFeeEUR))
    /\ t.TotalFeesEUR.k = "fin"
    /\ t.VolumeEUR = SimulatedTradeVolumeEUR

\* C30: every trade record handed to LogTrade has BuyPrice < SellPrice, a
\* net profit above zero that equals gross profit minus total fees, total
\* fees of at least the network fee, and the configured notional as volume.
C30_TradeRecordInvariants ==
    /\ trade # Nil => TradeRecordOK(trade)
    /\ \A t \in BagToSet(passLogged) : TradeRecordOK(t)

\* A trade with fees above the network fee alone is in a LogTrade call.
C30_Witness ==
    /\ pc = "logTrade"
    /\ trade # Nil
    /\ trade \in BagToSet(passLogged)
    /\ FGreater(trade.TotalFeesEUR, F(NetworkWithdrawalFeeEUR))

\* The stored numeric value num is exactly the float64 x.
NumericEqualsFloat(num, x) ==
    /\ x.k = "fin"
    /\ num.k = "fin"
    /\ num.sign = Sign(x)
    /\ num.int = Abs(x.n) \div x.d
    /\ Fin(num.frac, Pow10(NumericScale)) = Fin(Abs(x.n) % x.d, x.d)

\* A LogTrade call returns in this step.
LogTradeCalled == repoCalls' # repoCalls /\ repoCall'.op = "LogTrade"

\* The step adds one row at the end of simulated_trades and leaves its
\* other rows and table price_ticks as they are.
OneRowAdded ==
    /\ Len(simulatedTrades') = Len(simulatedTrades) + 1
    /\ SubSeq(simulatedTrades', 1, Len(simulatedTrades)) = simulatedTrades
    /\ priceTicks' = priceTicks

\* C28 as stated: a successful LogTrade adds exactly one row to
\* simulated_trades whose trading pair, exchanges, prices, volume and profit
\* fields equal those of the trade passed in, and changes no other row or
\* table; a failed LogTrade returns the error to the caller.
C28_LogTradeStoresTradeFields ==
    [][LogTradeCalled =>
          /\ repoCall'.err = repoCall'.execErr
          /\ repoCall'.err = "nil" =>
                LET t   == repoCall'.arg
                    row == simulatedTrades'[Len(simulatedTrades')]
                IN  /\ OneRowAdded
                    /\ row.trading_pair = t.TradingPair
                    /\ row.buy_exchange = t.BuyExchange
                    /\ row.sell_exchange = t.SellExchange
                    /\ NumericEqualsFloat(row.buy_price, t.BuyPrice)
                    /\ NumericEqualsFloat(row.sell_price, t.SellPrice)
                    /\ NumericEqualsFloat(row.volume_eur, t.VolumeEUR)
                    /\ NumericEqualsFloat(row.gross_profit_eur, t.GrossProfitEUR)
                    /\ NumericEqualsFloat(row.total_fees_eur, t.TotalFeesEUR)
                    /\ NumericEqualsFloat(row.net_profit_eur, t.NetProfitEUR)]_vars

\* C28, amended: a successful LogTrade adds exactly one row to
\* simulated_trades whose exchanges and trading pair are those of the trade
\* (cut to the column width where only spaces exceed it) and whose prices,
\* volume and profit fields are those of the trade rounded to eight
\* decimals, and changes no other row or table; a failed LogTrade returns
\* the error to the caller.
C28_LogTradeStoresRoundedFields ==
    [][LogTradeCalled =>
          /\ repoCall'.err = repoCall'.execErr
          /\ repoCall'.err = "nil" =>
                LET t   == repoCall'.arg
                    row == simulatedTrades'[Len(simulatedTrades')]
                IN  /\ OneRowAdded
                    /\ row.trading_pair = ToVarchar(t.TradingPair, PairWidth)
                    /\ row.buy_exchange = ToVarchar(t.BuyExchange, ExchangeWidth)
                    /\ row.sell_exchange = ToVarchar(t.SellExchange, ExchangeWidth)
                    /\ row.buy_price = ToNumeric(t.BuyPrice)
                    /\ row.sell_price = ToNumeric(t.SellPrice)
                    /\ row.volume_eur = ToNumeric(t.VolumeEUR)
                    /\ row.gross_profit_eur = ToNumeric(t.GrossProfitEUR)
                    /\ row.total_fees_eur = ToNumeric(t.TotalFeesEUR)
                    /\ row.net_profit_eur = ToNumeric(t.NetProfitEUR)]_vars

\* A successful LogTrade has stored, after another row and with a row in
\* price_ticks, a trade whose gross profit has more than eight decimals.
C28_Witness ==
    /\ repoCall # Nil
    /\ repoCall.op = "LogTrade"
    /\ repoCall.err = "nil"
    /\ Len(simulatedTrades) = 2
    /\ Len(priceTicks) = 1
    /\ ~NumericEqualsFloat(simulatedTrades[2].gross_profit_eur,
                           repoCall.arg.GrossProfitEUR)
    /\ simulatedTrades[2].gross_profit_eur = ToNumeric(repoCall.arg.GrossProfitEUR)

\* The engine is inside detection or persistence: past the store update of
\* ProcessTick in the event-driven engine, inside checkArbitrage with the
\* read lock held in the polling one.
InDetection ==
    \/ mode = "event" /\ pc \in {"range", "check", "sleep", "logTrade"}
    \/ mode = "poll" /\ priceMutex.readers > 0

\* C31: a step of detection or persistence leaves the store unchanged; a
\* step that changes the store is the store update of one ProcessTick call
\* and changes the entry of that call's source only; and between two passes
\* the engine holds no candidate and no trade.
C31_StoreChangedOnlyByIngest ==
    /\ [][InDetection => latestPrices' = latestPrices]_vars
    /\ [][latestPrices' # latestPrices =>
             \E ex \in Exchanges :
                 /\ \A o \in Exchanges \ {ex} : latestPrices'[o] = latestPrices[o]
                 /\ latestPrices'[ex] = lastProc[ex]
                 /\ latestPrices'[ex].Exchange = ex
                 /\ IF mode = "event" THEN pc = "logPriceTick" /\ tick.Exchange = ex
                                      ELSE wpc[ex] = "locked"]_vars
    /\ [](pc \in {"select", "stopped"} => cand = Nil /\ trade = Nil /\ ret = None)

\* A LogTrade call is running while the store holds all three sources and
\* one of them has submitted a newer tick than its entry.
C31_Witness ==
    /\ pc = "logTrade"
    /\ Keys = Exchanges
    /\ \E ex \in Exchanges : lastSent[ex] # latestPrices[ex]

\* The pass that ends has read the store the previous pass read and, in the
\* event-driven engine, was started by a tick of the same source.
SameAsPreviousPass ==
    /\ PassEnd
    /\ prevPass # Nil
    /\ prevPass.store = latestPrices
    /\ mode = "event" => prevPass.source = tick.Exchange

PassRunning ==
    pc \in {"rlock", "dir1", "dir2", "advance", "check", "sleep", "logTrade", "runlock"}

\* C33: in the polling engine the read lock is held by at most one pass; a
\* firing of the ticker changes nothing of the engine by itself; a pass
\* starts only from the select of Start, with no pass running, no candidate
\* and no trade in hand, by taking the buffered firing; and every LogTrade
\* call is for a trade of the one pass that is running.
C33_OnePassAtATime ==
    /\ [](priceMutex.readers <= 1)
    /\ [][(tickerC = 0 /\ tickerC' = 1) =>
             UNCHANGED <<pc, priceMutex, exchanges, i, j, ret, cand, trade,
                         passEvals, passLogged, passErrs>>]_vars
    /\ [][(PassRunning /\ pc # "runlock") => pc' # "select"]_vars
    /\ [][(pc' = "rlock" /\ pc # "rlock") =>
             /\ pc = "select"
             /\ priceMutex.readers = 0
             /\ cand = Nil
             /\ trade = Nil
             /\ tickerC = 1
             /\ tickerC' = 0]_vars
    /\ [](pc = "logTrade" =>
             /\ priceMutex.readers = 1
             /\ trade \in BagToSet(passLogged))

\* The ticker has fired while a pass is in its LogTrade call: the firing
\* waits in the channel.
C33_Witness ==
    /\ mode = "poll"
    /\ pc = "logTrade"
    /\ tickerC = 1
    /\ priceMutex.readers = 1

\* The client holds a connection it has dialled: it is sending its
\* subscription or is in its message loop.
Connected == cpc \in {"subscribe", "msgSelect", "read", "send"}

\* C34: a successful Dial leaves the backoff at 1 second whatever it was
\* before; the backoff stays 1 second as long as the connection is open; and
\* a reconnection wait entered from a connection lasts 1 second.
C34_BackoffResetOnConnect ==
    /\ [][(cpc = "dial" /\ conn' = "open") => backoff' = 1]_vars
    /\ [](conn = "open" => backoff = 1)
    /\ [][(Connected /\ cpc' = "backoffWait") => backoff' = 1]_vars

\* The client waits to reconnect, for 1 second, after a connection that
\* followed failed dials: its subscription could not be sent.
C34_Witness ==
    /\ client = "kraken"
    /\ cpc = "backoffWait"
    /\ conn = "closed"
    /\ backoff = 1

\* C35: StartStream returns only once the context is cancelled, from one of
\* its four selects, and returns nil; as long as the context is not
\* cancelled no step of the client (a failed dial, a failed subscription
\* send, a read error, a message that yields no tick) is a return.
C35_ReturnsOnlyOnCancel ==
    /\ [](cpc = "returned" => ctxDone /\ cret = "nil")
    /\ [](cpc # "returned" => cret = None)
    /\ [][(cpc # "returned" /\ cpc' = "returned") =>
             /\ ctxDone
             /\ cpc \in {"loop", "backoffWait", "msgSelect", "send"}]_vars
    /\ [][~ctxDone' => cpc' # "returned"]_vars
    /\ [][cpc = "returned" => cpc' = "returned" /\ cret' = cret]_vars

\* The context is not cancelled and the client, having failed to dial and
\* then lost a connection to a read error, is still running.
C35_Witness ==
    /\ ~ctxDone
    /\ conn = "closed"
    /\ backoff = 1
    /\ cpc = "read"

\* A message has just been read and handled.
MessageHandled == cpc = "read" /\ cmsg' # Nil

\* C40: every message read on an open Kraken connection either yields
\* exactly one tick for the send select, with Exchange "kraken" and the
\* parsed bid and ask, or yields nothing and the loop goes on to the next
\* message; in both cases the connection stays open and StartStream goes on.
C40_EveryMessageTickOrSkip ==
    [][MessageHandled =>
          /\ conn' = "open"
          /\ cret' = None
          /\ \/ cpc' = "msgSelect" /\ ctick' = ctick
             \/ /\ cpc' = "send"
                /\ ctick' # Nil
                /\ ctick'.Exchange = "kraken"]_vars

\* The engine goroutine is inside ProcessTick, past the LogPriceTick call.
PastLogPriceTick == pc \notin {"select", "logPriceTick", "stopped"}

\* C36: ProcessTick of the event-driven engine calls LogPriceTick exactly
\* once, for its tick, before the store update: the store changes only on
\* the return of that call, and nothing is on record before it. Whether the
\* call returned an error or not, the step that follows its return stores
\* the tick and starts the range loop over every key, and the pass ends
\* having made every cost computation the store calls for.
C36_LogPriceTickErrorOnlyLogged ==
    /\ [](pc \in {"select", "logPriceTick"} => tickLog = <<>>)
    /\ [](PastLogPriceTick =>
             /\ Len(tickLog) = 1
             /\ tickLog[1].tick = tick
             /\ latestPrices[tick.Exchange] = tick)
    /\ [][latestPrices' # latestPrices =>
             /\ pc = "logPriceTick"
             /\ tickLog = <<>>
             /\ Len(tickLog') = 1]_vars
    /\ [][(pc = "logPriceTick" /\ pc' # pc) =>
             /\ latestPrices' = [latestPrices EXCEPT ![tick.Exchange] = tick]
             /\ pc' = "range"
             /\ toVisit' = { ex \in Exchanges : latestPrices'[ex] # Nil }]_vars
    /\ [](PassEnd =>
             /\ \A c \in ExpectedEvals : \E e \in passEvals : e.c = c
             /\ \A e \in passEvals : FGreater(e.net, F(0)) => LoggedFor(e.c))

\* LogPriceTick returned an error for a tick that was stored all the same,
\* and the pass over the store has handed a trade to LogTrade.
C36_Witness ==
    /\ PassEnd
    /\ tickLog[1].err
    /\ latestPrices[tick.Exchange] = tick
    /\ passLogged # EmptyBag

\* The keys of the exchanges map of the example configuration.
ConfiguredExchanges == {"kraken", "binance"}

\* The fee of one leg of the given amount: the configured percentage of the
\* amount, and zero for a source without an entry.
LegFeeOrZero(ex, amount) ==
    IF ex = "kraken" THEN FMul(amount, FDiv(Fin(26, 100), F(100)))
    ELSE IF ex = "binance" THEN FMul(amount, FDiv(Fin(10, 100), F(100)))
    ELSE F(0)

\* The total fees of buying on a at buyPrice and selling on b at sellPrice
\* with a zero fee on every leg that has no configured source.
FeesWithZeroLegs(a, b, buyPrice, sellPrice) ==
    LET volumeInCrypto == FDiv(F(SimulatedTradeVolumeEUR), F(buyPrice))
    IN  FAdd(FAdd(LegFeeOrZero(a, FMul(F(buyPrice), volumeInCrypto)),
                  LegFeeOrZero(b, FMul(F(sellPrice), volumeInCrypto))),
             F(NetworkWithdrawalFeeEUR))

\* C37: a source without an entry in the exchanges map has a taker fee of
\* zero. No step of the engine is an error exit (it stops on cancellation
\* only); a pass that ends has made the cost computation of every candidate
\* the store calls for, those with an unconfigured source included; every
\* cost computation at a positive buy price and every trade handed to
\* LogTrade has total fees made of the configured legs' fees and the
\* withdrawal fee alone.
C37_MissingExchangeFeeIsZero ==
    /\ pc = "stopped" => ctxDone
    /\ PassEnd => \A c \in ExpectedEvals : \E e \in passEvals : e.c = c
    /\ \A e \in passEvals :
          (e.net # NotComputed /\ e.c.buyPrice > 0) =>
              e.net = FSub(FMul(FSub(F(e.c.sellPrice), F(e.c.buyPrice)),
                                FDiv(F(SimulatedTradeVolumeEUR), F(e.c.buyPrice))),
                           FeesWithZeroLegs(e.c.buyExchange, e.c.sellExchange,
                                            e.c.buyPrice, e.c.sellPrice))
    /\ \A t \in BagToSet(passLogged) :
          /\ t.TotalFeesEUR = FeesWithZeroLegs(t.BuyExchange, t.SellExchange,
                                               t.BuyPrice, t.SellPrice)
          /\ t.NetProfitEUR = FSub(t.GrossProfitEUR, t.TotalFeesEUR)

\* A pass has ended having handed to LogTrade a trade bought on a source
\* without an entry, and having evaluated and dropped a candidate sold on
\* one.
C37_Witness ==
    /\ PassEnd
    /\ \E t \in BagToSet(passLogged) :
          /\ t.BuyExchange \notin ConfiguredExchanges
          /\ t.SellExchange \in ConfiguredExchanges
    /\ \E e \in passEvals :
          /\ e.c.sellExchange \notin ConfiguredExchanges
          /\ ~LoggedFor(e.c)

\* What the goroutines started by main work on.
Goroutines ==
    <<pc, tick, toVisit, cand, trade, ret, latestPrices, priceChan, elapsed,
      passEvals, passLogged, passErrs, lastSent, lastProc>>

C39_TimestampAfterDelay ==
    /\ [](pc = "logTrade" =>
             /\ trade # Nil
             /\ stamp >= SimulatedLatencyMS
             /\ trade.BuyPrice = cand.buyPrice
             /\ trade.SellPrice = cand.sellPrice)
    /\ [](pc = "sleep" => trade = Nil)
    /\ [][(pc = "sleep" /\ pc' = "logTrade") =>
             /\ slept >= SimulatedLatencyMS
             /\ stamp' = slept
             /\ cand' = cand]_vars

\* A trade is being logged whose delay lasted longer than the configured
\* latency, with the Timestamp of the end of the delay.
C39_Witness ==
    /\ pc = "logTrade"
    /\ trade # Nil
    /\ stamp > SimulatedLatencyMS

====
